---- MODULE Spec2Model ----
(***************************************************************************)
(* A model of the WMS extract / flatten / upsert pipeline                  *)
(* (dePauloCardoso/dw-inventory-sae).                                      *)
(*                                                                         *)
(* The module holds several views of the program, each with its own        *)
(* specification over the same variables (a view leaves the variables of   *)
(* the other views at their idle values):                                  *)
(*   SpecFlat   flatten_one_level, the entity flatteners and the           *)
(*              parameter binding of the upsert_* functions                *)
(*   SpecPage   WMSClient.fetch_all_sync against an API that serves pages  *)
(*              and may fail                                               *)
(*   SpecRun    one extract_and_upsert_* run per entity type: window       *)
(*              fetch, fallback, detail fan-out (task by task), merge,     *)
(*              flatten, chunked upsert                                    *)
(*   SpecChunk  the chunked upsert loop over row lists of any length       *)
(***************************************************************************)
EXTENDS Integers, Sequences, FiniteSets, TLC

VARIABLES
    \* ---- flatten view
    fpc,          \* "record" -> "flat" -> "bound" -> "again"
    fentity,      \* the entity type whose flattener / upsert is applied
    record,       \* the source record (a JSON object)
    flat,         \* the flattened row handed to upsert_*
    sinkParams,   \* the parameter mapping upsert_* binds for the row
    inputObj,     \* the content of the dict object passed to the flattener
    flatAgain,    \* the row a second call of the flattener on that object returns
    \* ---- pagination view (WMSClient.fetch_all_sync)
    ppc,          \* "request" -> "await" -> ... -> "returned" | "raised"
    api,          \* what the API serves: page sizes, response shape, fault
    page,         \* the page counter
    items,        \* the records accumulated so far
    reqlog,       \* the page numbers requested, in order (one per HTTP attempt)
    perr,         \* the exception that left fetch_all_sync
    \* ---- entity run view (extract_and_upsert_*)
    rpc,          \* the position of the run
    entity,       \* the entity type of the run
    win,          \* what fetch_all_sync does for the primary and the fallback window
    fetchCalls,   \* the windows fetch_all_sync was called with, in order
    ritems,       \* items: the fetched summary records
    ids,          \* the ids of the summaries that carry one
    tstate,       \* per detail task: "waiting" | "running" | "done"
    tresult,      \* per detail task: what _fetch_one returned
    sem,          \* per _fetch_details_for_batch call: the semaphore's value
    completed,    \* the detail tasks in completion order
    detailOf,     \* id text |-> what the detail fetch for that id produced
    all_details,
    merged,
    flattened,
    chunkIdx,     \* how many chunks the batched() generator has yielded
    total,
    sinkLog,      \* the batches committed by upsert_*, in order
    txn,          \* the rows applied in the connection's open transaction
    retval,       \* the value the run returned
    rerr,         \* the exception that left the run
    \* ---- detail load view (_gather_all over an id list of any length)
    lpc,          \* "gather" -> "done"
    lids,         \* how many ids the run enriches
    lwaiting,     \* per _fetch_details_for_batch call: tasks waiting on its semaphore
    lsem,         \* per _fetch_details_for_batch call: the semaphore's value
    \* ---- sink view (upsert_* against its table)
    sentity,      \* the entity type whose upsert_* is called
    table,        \* the rows stored in the entity's table
    sbatch,       \* the batch of rows submitted
    scalls,       \* per upsert_* call so far: its outcome and the table after it
    \* ---- orchestration view (main)
    mpc,          \* the position of main
    config,       \* config.json: per required field "set" | "empty" | "missing"
    mstep,        \* the index of the extractor main is at
    mevents,      \* what main and its extractors did, in order
    persisted,    \* the entity types whose rows are committed, in commit order
    mtxn,         \* the entity whose rows sit in the connection's open transaction
    merr,         \* the exception that left main
    \* ---- location window view (extract_and_upsert_location)
    locpc,        \* the position of extract_and_upsert_location
    current_month, \* datetime.now().month
    locwin,       \* what the API answers to the primary and to the fallback fetch
    monthsSent,   \* the create_ts__month values sent, in call order
    \* ---- backlog view (run_backlog.fetch_backlog)
    bkpc,         \* the position of fetch_backlog: "loop" | "done"
    bstart,       \* the start datetime: [d: day number, t: time of day, 0 = midnight]
    bend,         \* the end datetime
    current,      \* the loop variable current
    blog,         \* per fetch so far: the window requested and what the day yielded
    exported,     \* the days whose rows were appended to the CSV file, in order
    total_records \* the number of rows exported

flatVars == <<fpc, fentity, record, flat, sinkParams, inputObj, flatAgain>>
pageVars == <<ppc, api, page, items, reqlog, perr>>
runVars == <<rpc, entity, win, fetchCalls, ritems, ids, tstate, tresult, sem, completed,
            detailOf, all_details, merged, flattened, chunkIdx, total, sinkLog, txn,
            retval, rerr>>
loadVars == <<lpc, lids, lwaiting, lsem>>
sinkVars == <<sentity, table, sbatch, scalls>>
mainVars == <<mpc, config, mstep, mevents, persisted, mtxn, merr>>
monthVars == <<locpc, current_month, locwin, monthsSent>>
backlogVars == <<bkpc, bstart, bend, current, blog, exported, total_records>>
vars == <<flatVars, pageVars, runVars, loadVars, sinkVars, mainVars, monthVars, backlogVars>>
notFlatVars == <<pageVars, runVars, loadVars, sinkVars, mainVars, monthVars, backlogVars>>
notPageVars == <<flatVars, runVars, loadVars, sinkVars, mainVars, monthVars, backlogVars>>
notRunVars == <<flatVars, pageVars, loadVars, sinkVars, mainVars, monthVars, backlogVars>>
notLoadVars == <<flatVars, pageVars, runVars, sinkVars, mainVars, monthVars, backlogVars>>
notSinkVars == <<flatVars, pageVars, runVars, loadVars, mainVars, monthVars, backlogVars>>
notMonthVars == <<flatVars, pageVars, runVars, loadVars, sinkVars, mainVars, backlogVars>>
notMainVars == <<flatVars, pageVars, runVars, loadVars, sinkVars, monthVars, backlogVars>>
notBacklogVars == <<flatVars, pageVars, runVars, loadVars, sinkVars, mainVars, monthVars>>

(***************************************************************************)
(* JSON values.  A value is a tagged record; the payload v of a scalar is  *)
(* its text, so that values of different Python types stay comparable.     *)
(* A nested mapping carries its sub-keys in d.                             *)
(***************************************************************************)
Null == [t |-> "null", v |-> ""]
JInt(s) == [t |-> "int", v |-> s]
JFloat(s) == [t |-> "float", v |-> s]
JStr(s) == [t |-> "str", v |-> s]
JBool(s) == [t |-> "bool", v |-> s]
JDict(m) == [t |-> "dict", d |-> m]
EmptyMap == <<>>

IsDict(x) == x.t = "dict"

(***************************************************************************)
(* The idle values of each view's variables.                               *)
(***************************************************************************)
MonthIdle ==
    /\ locpc = "idle"
    /\ current_month = 0
    /\ locwin = <<>>
    /\ monthsSent = <<>>

BacklogIdle ==
    /\ bkpc = "idle"
    /\ bstart = <<>>
    /\ bend = <<>>
    /\ current = <<>>
    /\ blog = <<>>
    /\ exported = <<>>
    /\ total_records = 0

FlatIdle ==
    /\ fpc = "idle"
    /\ fentity = "none"
    /\ record = EmptyMap
    /\ flat = EmptyMap
    /\ sinkParams = EmptyMap
    /\ inputObj = EmptyMap
    /\ flatAgain = EmptyMap

RunIdle ==
    /\ rpc = "idle"
    /\ entity = "none"
    /\ win = EmptyMap
    /\ fetchCalls = <<>>
    /\ ritems = <<>>
    /\ ids = <<>>
    /\ tstate = <<>>
    /\ tresult = <<>>
    /\ sem = <<>>
    /\ completed = <<>>
    /\ detailOf = EmptyMap
    /\ all_details = <<>>
    /\ merged = <<>>
    /\ flattened = <<>>
    /\ chunkIdx = 0
    /\ total = 0
    /\ sinkLog = <<>>
    /\ txn = <<>>
    /\ retval = 0
    /\ rerr = "none"

MainIdle ==
    /\ mpc = "idle"
    /\ config = <<>>
    /\ mstep = 0
    /\ mevents = <<>>
    /\ persisted = <<>>
    /\ mtxn = "none"
    /\ merr = "none"

SinkIdle ==
    /\ sentity = "none"
    /\ table = <<>>
    /\ sbatch = <<>>
    /\ scalls = <<>>

LoadIdle ==
    /\ lpc = "idle"
    /\ lids = 0
    /\ lwaiting = <<>>
    /\ lsem = <<>>

PageIdle ==
    /\ ppc = "idle"
    /\ api = EmptyMap
    /\ page = 0
    /\ items = <<>>
    /\ reqlog = <<>>
    /\ perr = "none"

\* dict.get(key): the value, or None when the key is absent
Get(m, k) == IF k \in DOMAIN m THEN m[k] ELSE Null

\* the mapping m with m[k] = x (assignment out[k] = x)
Put(m, k, x) == [c \in (DOMAIN m) \cup {k} |-> IF c = k THEN x ELSE m[c]]

\* an exception leaving a function (the model does not tell exception types
\* apart where the code does not)
Raise == [t |-> "raise", v |-> ""]
OverflowError == [t |-> "raise", v |-> "OverflowError"]

\* Python truthiness of a JSON value
Truthy(x) ==
    CASE x.t = "null" -> FALSE
      [] x.t = "dict" -> DOMAIN x.d # {}
      [] x.t = "str" -> x.v # ""
      [] x.t = "bool" -> x.v = "true"
      [] x.t \in {"int", "float"} -> x.v \notin {"0", "0.0"}
      [] OTHER -> TRUE

(***************************************************************************)
(* Python's int(), float() and datetime.fromisoformat() on the texts the   *)
(* model draws values from.                                                *)
(***************************************************************************)
IntLiteral == "7" :> "7" @@ "0" :> "0"
FloatLiteral == "7" :> "7.0" @@ "0" :> "0.0" @@ "1.5" :> "1.5"
FloatTrunc == "1.5" :> "1" @@ "0.0" :> "0" @@ "7.0" :> "7"
IsoLiteral ==
    "2024-05-01T10:00:00" :> "2024-05-01T10:00:00"
    @@ "2024-05-01T10:00:00Z" :> "2024-05-01T10:00:00+00:00"

\* int(v): a number, or the exception it raises
PyInt(x) ==
    CASE x.t = "int" -> x
      [] x.t = "bool" -> JInt(IF x.v = "true" THEN "1" ELSE "0")
      [] x.t = "float" -> IF x.v \in DOMAIN FloatTrunc THEN JInt(FloatTrunc[x.v])
                          ELSE OverflowError      \* int(float("inf"))
      [] x.t = "str" -> IF x.v \in DOMAIN IntLiteral THEN JInt(IntLiteral[x.v])
                        ELSE Raise                \* ValueError
      [] OTHER -> Raise                           \* TypeError

\* float(v): a number, or the exception it raises
PyFloat(x) ==
    CASE x.t = "float" -> x
      [] x.t = "int" -> JFloat(FloatLiteral[x.v])
      [] x.t = "bool" -> JFloat(IF x.v = "true" THEN "1.0" ELSE "0.0")
      [] x.t = "str" -> IF x.v \in DOMAIN FloatLiteral THEN JFloat(FloatLiteral[x.v])
                        ELSE Raise                \* ValueError
      [] OTHER -> Raise                           \* TypeError

IsRaise(x) == x.t = "raise"

(***************************************************************************)
(* utils.flatten_one_level                                                 *)
(***************************************************************************)
Suffixed(k, subk) == k \o "_" \o subk

RefKeys == {"id", "key", "url"}

flatten_one_level(d) ==
    LET nestedKeys == {k \in DOMAIN d : IsDict(d[k])}
        outKeys ==
            {k \in DOMAIN d : ~IsDict(d[k])}
            \cup UNION {{Suffixed(k, s) : s \in RefKeys \cap DOMAIN d[k].d} : k \in nestedKeys}
            \cup UNION {{Suffixed(k, s) : s \in (DOMAIN d[k].d) \ RefKeys} : k \in nestedKeys}
        Src(c) == CHOOSE p \in UNION {{<<k, s>> : s \in DOMAIN d[k].d} : k \in nestedKeys} :
                      Suffixed(p[1], p[2]) = c
    IN  [c \in outKeys |->
            IF c \in DOMAIN d /\ ~IsDict(d[c]) THEN d[c]
            ELSE d[Src(c)[1]].d[Src(c)[2]]]

\* for f in keys: if f in flat: flat[f] = F(flat.get(f))
Coerce(row, keys, F(_)) ==
    [c \in DOMAIN row |-> IF c \in keys THEN F(row[c]) ELSE row[c]]

\* an exception raised by a coercion leaves the flattener
Raised(row) == \E c \in DOMAIN row : IsRaise(row[c])
RaisedWith(row) == CHOOSE x \in {row[c] : c \in DOMAIN row} : IsRaise(x)

(***************************************************************************)
(* extractors/inventory.py: coercions and _flatten_inventory_record        *)
(***************************************************************************)
inv_safe_float(x) ==
    IF x.t = "null" THEN JFloat("0.0")
    ELSE IF IsRaise(PyFloat(x)) THEN JFloat("0.0") ELSE PyFloat(x)

inv_safe_int(x) ==
    IF x.t = "null" \/ x = JStr("") THEN Null
    ELSE IF IsRaise(PyInt(x)) THEN Null ELSE PyInt(x)

inv_parse_iso_date(x) ==
    IF ~Truthy(x) THEN Null
    ELSE IF x.t = "str" /\ x.v \in DOMAIN IsoLiteral
         THEN [t |-> "datetime", v |-> IsoLiteral[x.v]]
         ELSE Null

InventoryQtyFields == {"curr_qty", "orig_qty", "pack_qty", "case_qty"}
InventoryIntFields ==
    {"id", "facility_id_id", "item_id_id", "location_id_id", "container_id_id",
     "status_id", "batch_number_id", "invn_attr_id_id", "uom_id_id"}
InventoryTsFields == {"create_ts", "mod_ts"}
InventoryNested ==
    {"facility_id", "item_id", "location_id", "container_id", "invn_attr_id", "uom_id"}

\* "normalize nested fields for backward compatibility": the reference triple of
\* each nested mapping is written again from the source record
NormalizeNested(row, inv, nested) ==
    LET refs == UNION {{<<n, s>> : s \in RefKeys \cap DOMAIN inv[n].d} :
                       n \in {k \in nested \cap DOMAIN inv : IsDict(inv[k])}}
        Ref(c) == CHOOSE p \in refs : Suffixed(p[1], p[2]) = c
        refCols == {Suffixed(p[1], p[2]) : p \in refs}
    IN  [c \in (DOMAIN row) \cup refCols |->
            IF c \in refCols THEN inv[Ref(c)[1]].d[Ref(c)[2]] ELSE row[c]]

flatten_inventory_record(inv) ==
    LET f0 == flatten_one_level(inv)
        f1 == Coerce(f0, InventoryQtyFields, inv_safe_float)
        f2 == Coerce(f1, InventoryIntFields, inv_safe_int)
        f3 == Coerce(f2, InventoryTsFields, inv_parse_iso_date)
    IN  NormalizeNested(f3, inv, InventoryNested)

(***************************************************************************)
(* extractors/location.py: coercions and _flatten_location_record          *)
(***************************************************************************)
NullTokens == {Null, JStr(""), JStr("null")}

loc_safe_float(x) ==
    IF x \in NullTokens THEN Null
    ELSE IF IsRaise(PyFloat(x)) THEN Null ELSE PyFloat(x)

\* except (TypeError, ValueError): an OverflowError is not caught
loc_safe_int(x) ==
    IF x \in NullTokens THEN Null
    ELSE IF PyInt(x) = OverflowError THEN OverflowError
    ELSE IF IsRaise(PyInt(x)) THEN Null ELSE PyInt(x)

Lower == "true" :> "true" @@ "TRUE" :> "true" @@ "Y" :> "y" @@ "no" :> "no"
         @@ "" :> "" @@ "7" :> "7" @@ "0" :> "0" @@ "abc" :> "abc"
         @@ "null" :> "null" @@ "1.5" :> "1.5"
TruthyTokens == {"true", "t", "1", "yes", "y"}

loc_safe_bool(x) ==
    IF x.t = "null" THEN Null
    ELSE IF x.t = "bool" THEN x
    ELSE IF x.t = "str"
         THEN JBool(IF (IF x.v \in DOMAIN Lower THEN Lower[x.v] ELSE x.v) \in TruthyTokens
                    THEN "true" ELSE "false")
         ELSE JBool(IF Truthy(x) THEN "true" ELSE "false")

loc_parse_datetime(x) ==
    IF ~Truthy(x) THEN Null
    ELSE IF x.t = "str" /\ x.v \in DOMAIN IsoLiteral
         THEN [t |-> "datetime", v |-> IsoLiteral[x.v]]
         ELSE Null

LocationFloatFields ==
    {"length", "width", "height", "max_units", "min_units", "max_volume", "min_volume",
     "min_weight", "max_weight", "cc_threshold_value", "x_coordinate", "y_coordinate",
     "z_coordinate", "in_transit_units"}
LocationIntFields ==
    {"id", "facility_id_id", "dedicated_company_id_id", "type_id_id", "max_lpns",
     "lock_code_id", "replenishment_zone_id_id", "item_assignment_type_id_id",
     "item_id_id", "mhe_system_id", "task_zone_id", "cc_threshold_uom_id_id"}
LocationBoolFields ==
    {"allow_multi_sku", "to_be_counted_flg", "lock_for_putaway_flg",
     "allow_reserve_partial_pick_flg", "restrict_batch_nbr_flg",
     "restrict_invn_attr_flg", "assembly_flg"}
LocationTsFields ==
    {"create_ts", "mod_ts", "to_be_counted_ts", "last_count_ts", "lock_applied_ts"}
LocationNested ==
    {"facility_id", "dedicated_company_id", "type_id", "destination_company_id",
     "replenishment_zone_id", "item_assignment_type_id", "item_id", "cc_threshold_uom_id"}

\* for nf in nested_fields: if nf in flat and isinstance(flat[nf], dict):
\*     flat[nf_key] = ..., flat[nf_url] = ..., flat.pop(nf)
PopNested(row, nested) ==
    LET hit == {n \in nested \cap DOMAIN row : IsDict(row[n])}
        cols == UNION {{Suffixed(n, "key"), Suffixed(n, "url")} : n \in hit}
        Of(c) == CHOOSE p \in {<<n, s>> : n \in hit, s \in {"key", "url"}} :
                     Suffixed(p[1], p[2]) = c
    IN  [c \in ((DOMAIN row) \ hit) \cup cols |->
            IF c \in cols THEN Get(row[Of(c)[1]].d, Of(c)[2]) ELSE row[c]]

flatten_location_record(location) ==
    LET f0 == flatten_one_level(location)
        f1 == Coerce(f0, LocationFloatFields, loc_safe_float)
        f2 == Coerce(f1, LocationIntFields, loc_safe_int)
        f3 == Coerce(f2, LocationBoolFields, loc_safe_bool)
        f4 == Coerce(f3, LocationTsFields, loc_parse_datetime)
    IN  IF Raised(f2) THEN f2 ELSE PopNested(f4, LocationNested)

(***************************************************************************)
(* extractors/container.py, order_hdr.py, order_dtl.py: _safe_float,       *)
(* _safe_int, _safe_bool and _parse_datetime are the same functions as in  *)
(* location.py.                                                            *)
(***************************************************************************)
JList(s) == [t |-> "list", v |-> s]

DateLiteral ==
    "2024-05-01" :> "2024-05-01"
    @@ "2024-05-01T10:00:00" :> "2024-05-01"
    @@ "2024-05-01T10:00:00Z" :> "2024-05-01"

\* order_hdr._parse_date
hdr_parse_date(x) ==
    IF ~Truthy(x) THEN Null
    ELSE IF x.t = "str" /\ x.v \in DOMAIN DateLiteral
         THEN [t |-> "date", v |-> DateLiteral[x.v]]
         ELSE Null

\* for array_field in [...]: a list is stored as str(v)
ArrayToStr(x) == IF x.t = "list" THEN JStr(x.v) ELSE x

ContainerFloatFields == {"weight", "volume", "length", "width", "height"}
ContainerIntFields ==
    {"id", "facility_id_id", "company_id_id", "status_id", "vas_status_id",
     "curr_location_id_id", "prev_location_id_id", "pallet_id", "rcvd_shipment_id_id",
     "putawaytype_id_id", "lpn_type_id", "cart_posn_nbr", "audit_status_id",
     "qc_status_id", "asset_id", "nbr_files"}
ContainerBoolFields == {"parcel_batch_flg", "price_labels_printed", "actual_weight_flg"}
ContainerTsFields == {"create_ts", "mod_ts", "rcvd_ts", "first_putaway_ts", "priority_date"}
ContainerNested ==
    {"facility_id", "company_id", "curr_location_id", "prev_location_id",
     "rcvd_shipment_id", "putawaytype_id"}

flatten_container_record(container) ==
    LET f0 == flatten_one_level(container)
        f1 == Coerce(f0, ContainerFloatFields, loc_safe_float)
        f2 == Coerce(f1, ContainerIntFields, loc_safe_int)
        f3 == Coerce(f2, ContainerBoolFields, loc_safe_bool)
        f4 == Coerce(f3, ContainerTsFields, loc_parse_datetime)
    IN  IF Raised(f2) THEN f2 ELSE PopNested(f4, ContainerNested)

OrderHdrFloatFields ==
    {"total_orig_ord_qty", "orig_sale_price", "cust_number_1", "cust_number_2",
     "cust_number_3", "cust_number_4", "cust_number_5", "cust_decimal_1",
     "cust_decimal_2", "cust_decimal_3", "cust_decimal_4", "cust_decimal_5"}
OrderHdrIntFields ==
    {"id", "facility_id_id", "company_id_id", "status_id", "dest_facility_id",
     "shipto_facility_id", "stage_location_id", "ship_via_id", "priority",
     "payment_method_id", "ob_lpn_type_id", "orig_sku_count", "work_order_kit_id",
     "duties_payment_method_id", "customs_broker_contact_id", "order_type_id_id",
     "destination_company_id_id"}
OrderHdrBoolFields == {"externally_planned_load_flg", "stop_ship_flg"}
OrderHdrTsFields == {"create_ts", "mod_ts", "order_shipped_ts"}
OrderHdrDateFields ==
    {"ord_date", "exp_date", "req_ship_date", "start_ship_date", "stop_ship_date",
     "sched_ship_date", "cust_date_1", "cust_date_2", "cust_date_3", "cust_date_4",
     "cust_date_5"}
OrderHdrNested == {"facility_id", "company_id", "order_type_id", "destination_company_id"}
OrderHdrArrayFields == {"order_instructions_set", "order_lock_set"}

\* if flat.get("order_dtl_set"): ods = flat.pop("order_dtl_set"); a mapping was
\* already collapsed by flatten_one_level, so what is popped here is dropped
PopOrderDtlSet(row) ==
    IF Truthy(Get(row, "order_dtl_set"))
    THEN [c \in (DOMAIN row) \ {"order_dtl_set"} |-> row[c]]
    ELSE row

flatten_order_hdr_record(order_hdr) ==
    LET f0 == flatten_one_level(order_hdr)
        f1 == Coerce(f0, OrderHdrFloatFields, loc_safe_float)
        f2 == Coerce(f1, OrderHdrIntFields, loc_safe_int)
        f3 == Coerce(f2, OrderHdrBoolFields, loc_safe_bool)
        f4 == Coerce(f3, OrderHdrTsFields, loc_parse_datetime)
        f5 == Coerce(f4, OrderHdrDateFields, hdr_parse_date)
        f6 == PopOrderDtlSet(PopNested(f5, OrderHdrNested))
    IN  IF Raised(f2) THEN f2 ELSE Coerce(f6, OrderHdrArrayFields, ArrayToStr)

OrderDtlFloatFields ==
    {"ord_qty", "orig_ord_qty", "alloc_qty", "cost", "sale_price", "voucher_amount",
     "unit_declared_value", "cust_number_1", "cust_number_2", "cust_number_3",
     "cust_number_4", "cust_number_5", "cust_decimal_1", "cust_decimal_2",
     "cust_decimal_3", "cust_decimal_4", "cust_decimal_5",
     "min_shipping_tolerance_percentage", "max_shipping_tolerance_percentage",
     "ordered_uom_qty"}
OrderDtlIntFields ==
    {"id", "order_id_id", "seq_nbr", "item_id_id", "batch_number_id",
     "voucher_print_count", "status_id", "invn_attr_id_id", "uom_id_id",
     "ordered_uom_id_id", "ob_lpn_type_id", "orig_order_ref_id"}
OrderDtlTsFields ==
    {"create_ts", "mod_ts", "voucher_exp_date", "cust_date_1", "cust_date_2",
     "cust_date_3", "cust_date_4", "cust_date_5"}
OrderDtlNested == {"order_id", "item_id", "invn_attr_id", "uom_id", "ordered_uom_id"}
OrderDtlArrayFields == {"order_instructions_set", "required_serial_nbr_set"}

flatten_order_dtl_record(order_dtl) ==
    LET f0 == flatten_one_level(order_dtl)
        f1 == Coerce(f0, OrderDtlFloatFields, loc_safe_float)
        f2 == Coerce(f1, OrderDtlIntFields, loc_safe_int)
        f3 == Coerce(f2, OrderDtlTsFields, loc_parse_datetime)
        f4 == PopNested(f3, OrderDtlNested)
    IN  IF Raised(f2) THEN f2 ELSE Coerce(f4, OrderDtlArrayFields, ArrayToStr)

(***************************************************************************)
(* extractors/oblpn.py: coercions and _flatten_oblpn_record                *)
(***************************************************************************)
oblpn_safe_float(x) ==
    IF x \in NullTokens THEN JFloat("0.0")
    ELSE IF IsRaise(PyFloat(x)) THEN JFloat("0.0") ELSE PyFloat(x)

oblpn_safe_int(x) ==
    IF x \in NullTokens THEN Null
    ELSE IF IsRaise(PyInt(x)) THEN Null ELSE PyInt(x)

OblpnFloatFields == {"weight", "volume", "length", "width", "height"}
OblpnIntFields ==
    {"id", "facility_id_id", "company_id_id", "curr_location_id_id",
     "prev_location_id_id", "status_id", "vas_status_id", "audit_status_id",
     "qc_status_id", "lpn_type_id", "cart_posn_nbr", "nbr_files"}
OblpnTsFields == {"create_ts", "mod_ts", "rcvd_ts", "first_putaway_ts"}
OblpnNested == {"facility_id", "company_id", "curr_location_id", "prev_location_id"}

flatten_oblpn_record(rec) ==
    LET f0 == flatten_one_level(rec)
        f1 == Coerce(f0, OblpnFloatFields, oblpn_safe_float)
        f2 == Coerce(f1, OblpnIntFields, oblpn_safe_int)
        f3 == Coerce(f2, OblpnTsFields, inv_parse_iso_date)
    IN  NormalizeNested(f3, rec, OblpnNested)

(***************************************************************************)
(* db.py: the parameter mapping each upsert_* binds for one row.  The      *)
(* columns kept are those the model's records can fill.                    *)
(***************************************************************************)
\* column |-> the row key read by item.get(...)
upsert_inventory_binding ==
    [id |-> "id",
     create_ts |-> "create_ts",
     facility_id_id |-> "facility_id.id",
     facility_id_key |-> "facility_id.key",
     facility_id_url |-> "facility_id.url",
     location_id |-> "location_id",
     curr_qty |-> "curr_qty",
     status_id |-> "status_id"]

upsert_location_binding ==
    [id |-> "id",
     create_ts |-> "create_ts",
     facility_id_id |-> "facility_id.id",
     facility_id_key |-> "facility_id.key",
     facility_id_url |-> "facility_id.url",
     area |-> "area",
     type_id_id |-> "type_id.id",
     type_id_key |-> "type_id.key",
     type_id_url |-> "type_id.url",
     allow_multi_sku |-> "allow_multi_sku",
     max_units |-> "max_units",
     max_lpns |-> "max_lpns"]

\* the columns bound as `item.get(k) if item.get(k) else None`
upsert_location_falsy_null == {"area", "max_units", "max_lpns"}

BindParams(binding, falsyNull, item) ==
    [c \in DOMAIN binding |->
        IF c \in falsyNull /\ ~Truthy(Get(item, binding[c])) THEN Null
        ELSE Get(item, binding[c])]

upsert_inventory_params(item) == BindParams(upsert_inventory_binding, {}, item)

upsert_location_params(item) ==
    BindParams(upsert_location_binding, upsert_location_falsy_null, item)

(***************************************************************************)
(* wms_client.py: WMSClient.fetch_all_sync.                                *)
(*                                                                         *)
(* The API holds Len(api.sizes) pages of records; every later page is      *)
(* empty.  It answers in one response shape, and one page may be faulty:   *)
(* a permanent fault fails every attempt, a transient one (HTTP 5xx, a     *)
(* timeout) fails the first api.faultTimes attempts at that page.          *)
(***************************************************************************)
page_size == 200
default_retries == 3

MaxPages == 3
MaxTransient == 2

PageSizes == {0, 1, page_size - 1, page_size}
Shapes == {"results", "result", "bare"}
PermanentFaults == {"404", "401", "malformed"}
TransientFaults == {"500", "timeout"}

\* the records of page p when it holds n of them
PageRecords(p, n) == [i \in 1..n |-> <<p, i>>]

SizeOf(a, p) == IF p \in 1..Len(a.sizes) THEN a.sizes[p] ELSE 0

Apis ==
    {[sizes |-> sz, shape |-> sh, faultPage |-> fp, faultKind |-> fk, faultTimes |-> ft] :
        sz \in UNION {[1..n -> PageSizes] : n \in 0..MaxPages},
        sh \in Shapes,
        fp \in 0..MaxPages,
        fk \in PermanentFaults \cup TransientFaults,
        ft \in 1..MaxTransient}

\* one canonical description per API behaviour
ApiOk(a) ==
    /\ a.faultPage = 0 => (a.faultKind = "404" /\ a.faultTimes = 1)
    /\ a.faultKind \in PermanentFaults => a.faultTimes = 1

\* the outcome of the attempt-th request of page p: "ok" or the fault
Answer(a, p, attempt) ==
    IF a.faultPage = p /\ (a.faultKind \in PermanentFaults \/ attempt <= a.faultTimes)
    THEN a.faultKind ELSE "ok"

Occurrences(log, p) == Cardinality({i \in 1..Len(log) : log[i] = p})

\* data.get("results", []) or data.get("result", []) or []; a bare array has no
\* .get and the call raises AttributeError
ParseBody(shape, recs) ==
    IF shape = "bare" THEN "AttributeError" ELSE "ok"

InitPage ==
    /\ ppc = "request"
    /\ api \in {a \in Apis : ApiOk(a)}
    /\ page = 1
    /\ items = <<>>
    /\ reqlog = <<>>
    /\ perr = "none"
    /\ FlatIdle
    /\ RunIdle
    /\ LoadIdle
    /\ SinkIdle
    /\ MainIdle
    /\ MonthIdle
    /\ BacklogIdle

\* resp = self._client.get(url, headers, params={..., page, page_size})
SendPageRequest ==
    /\ ppc = "request"
    /\ reqlog' = Append(reqlog, page)
    /\ ppc' = "await"
    /\ UNCHANGED <<api, page, items, perr>>
    /\ UNCHANGED notPageVars

\* if len(results) < page_size: break
ShortPage_never(results) == FALSE
ShortPage(results) == Len(results) < page_size

\* page += 1
NextPageNumber_same(p) == p
NextPageNumber(p) == p + 1

\* the rest of the loop body once the response (or the transport error) is in
HandlePageResponse(answer, shape, results) ==
    IF answer = "timeout" THEN
        /\ ppc' = "raised" /\ perr' = "timeout"
        /\ UNCHANGED <<page, items>>
    ELSE IF answer \in {"404", "401", "500"} THEN     \* resp.raise_for_status()
        /\ ppc' = "raised" /\ perr' = answer
        /\ UNCHANGED <<page, items>>
    ELSE IF answer = "malformed" THEN                  \* resp.json()
        /\ ppc' = "raised" /\ perr' = "malformed"
        /\ UNCHANGED <<page, items>>
    ELSE IF ParseBody(shape, results) # "ok" THEN
        /\ ppc' = "raised" /\ perr' = ParseBody(shape, results)
        /\ UNCHANGED <<page, items>>
    ELSE IF results = <<>> THEN                        \* if not results: break
        /\ ppc' = "returned"
        /\ UNCHANGED <<page, items, perr>>
    ELSE IF ShortPage(results) THEN
        /\ items' = items \o results
        /\ ppc' = "returned"
        /\ UNCHANGED <<page, perr>>
    ELSE
        /\ items' = items \o results
        /\ page' = NextPageNumber(page)
        /\ ppc' = "request"
        /\ UNCHANGED perr

ReceivePageResponse ==
    /\ ppc = "await"
    /\ HandlePageResponse(Answer(api, page, Occurrences(reqlog, page)), api.shape,
                          PageRecords(page, SizeOf(api, page)))
    /\ UNCHANGED <<api, reqlog>>
    /\ UNCHANGED notPageVars

NextPage == SendPageRequest \/ ReceivePageResponse

SpecPage == InitPage /\ [][NextPage]_vars

(***************************************************************************)
(* Claims on pagination.                                                   *)
(***************************************************************************)
FaultFree(a) == a.faultPage = 0 /\ a.shape # "bare"

\* the pages shrink strictly, down to the empty page after the last one
Decreasing(a) ==
    /\ Len(a.sizes) >= 1
    /\ \A i \in 1..Len(a.sizes) : a.sizes[i] > SizeOf(a, i + 1)

\* the first page shorter than page_size
StopPage(a) == CHOOSE p \in 1..(Len(a.sizes) + 1) :
                   /\ SizeOf(a, p) < page_size
                   /\ \A q \in 1..(p - 1) : SizeOf(a, q) >= page_size

RECURSIVE ConcatPages(_, _)
ConcatPages(a, n) ==
    IF n = 0 THEN <<>> ELSE ConcatPages(a, n - 1) \o PageRecords(n, SizeOf(a, n))

\* C5 (as claimed): when the API serves pages of decreasing size down to an
\* empty page, fetch_all_sync returns exactly the concatenation, in page order,
\* of all non-empty pages, and requests no page after the empty one.
C5_ReturnsAllNonEmptyPages ==
    (FaultFree(api) /\ Decreasing(api)) =>
        /\ Len(reqlog) <= Len(api.sizes) + 1
        /\ ppc = "returned" => items = ConcatPages(api, Len(api.sizes))

\* C5 (amended): fetch_all_sync requests the pages 1, 2, ... up to the first
\* page shorter than page_size and no page after it, and returns exactly the
\* concatenation, in page order, of the pages up to and including that one.
C5_ReturnsPagesUpToFirstShort ==
    FaultFree(api) =>
        /\ Len(reqlog) <= StopPage(api)
        /\ page <= StopPage(api)
        /\ ppc = "returned" =>
              /\ items = ConcatPages(api, StopPage(api))
              /\ reqlog = [i \in 1..StopPage(api) |-> i]

\* a full page, a short page and a page never requested have been served
C5_Witness ==
    /\ ppc = "returned"
    /\ FaultFree(api)
    /\ api.sizes = <<page_size, page_size - 1, 1>>
    /\ Len(items) = 2 * page_size - 1
    /\ reqlog = <<1, 2>>

\* C9: a transient failure (timeout, HTTP 5xx) of a page request is retried, up
\* to default_retries attempts: a request that fails transiently fewer times
\* than the bound and then succeeds does not make fetch_all_sync fail, and no
\* request is attempted more than default_retries times.
C9_TransientRetried ==
    /\ \A p \in 1..(MaxPages + 1) : Occurrences(reqlog, p) <= default_retries
    /\ (/\ api.faultKind \in TransientFaults
        /\ api.faultTimes < default_retries
        /\ api.shape # "bare") => ppc # "raised"

\* page 1 was answered with HTTP 500 once and fetch_all_sync has ended
C9_Witness ==
    /\ ppc \in {"returned", "raised"}
    /\ api.faultPage = 1
    /\ api.faultKind = "500"
    /\ api.faultTimes = 1
    /\ api.sizes = <<1>>
    /\ api.shape = "results"

(***************************************************************************)
(* The source records of the flatten view: every combination of the        *)
(* sample values below, a field being absent when it draws Absent.         *)
(***************************************************************************)
Absent == [t |-> "absent", v |-> ""]
Prune(f) == [k \in {c \in DOMAIN f : f[c] # Absent} |-> f[k]]

ScalarSamples ==
    {Null, JInt("7"), JInt("0"), JStr("7"), JStr("abc"), JStr(""), JStr("null"),
     JFloat("1.5"), JBool("true")}
BoolSamples ==
    {Null, JBool("true"), JBool("false"), JStr("TRUE"), JStr("Y"), JStr("no"), JInt("0"),
     JInt("7")}
TsSamples ==
    {Null, JStr("2024-05-01T10:00:00"), JStr("2024-05-01T10:00:00Z"), JStr("abc")}
FullRef == [id |-> JInt("3"), key |-> JStr("K3"), url |-> JStr("http://wms/3")]
RefSamples ==
    {Null, JDict(EmptyMap), JDict(FullRef), JDict([id |-> JInt("3")]),
     JDict([id |-> JStr("x"), key |-> JStr("K3"), url |-> JStr("http://wms/3")]),
     JDict([id |-> JInt("3"), key |-> JStr("K3"), url |-> JStr("http://wms/3"),
            name |-> JStr("n")])}

InventoryRecords ==
    {Prune([id |-> a, curr_qty |-> b, status_id |-> c, create_ts |-> d,
            facility_id |-> e, location_id |-> f]) :
        a \in {Absent, JInt("7"), JStr("7")},
        b \in ScalarSamples \cup {Absent},
        c \in ScalarSamples \cup {Absent},
        d \in TsSamples \cup {Absent},
        e \in RefSamples \cup {Absent},
        f \in {Absent, JInt("7"), JDict(FullRef)}}

LocationRecords ==
    {Prune([id |-> a, max_units |-> b, max_lpns |-> c, allow_multi_sku |-> d,
            type_id |-> e, area |-> f]) :
        a \in {Absent, JInt("7"), JStr("7")},
        b \in ScalarSamples \cup {Absent},
        c \in ScalarSamples \cup {Absent, JFloat("inf")},
        d \in BoolSamples \cup {Absent},
        e \in RefSamples \cup {Absent},
        f \in {Absent, Null, JStr(""), JStr("abc")}}

FlatEntities == {"inventory", "location"}
RecordsOf(e) == IF e = "inventory" THEN InventoryRecords ELSE LocationRecords
FlattenOf(e, r) ==
    IF e = "inventory" THEN flatten_inventory_record(r) ELSE flatten_location_record(r)
ParamsOf(e, row) ==
    IF e = "inventory" THEN upsert_inventory_params(row) ELSE upsert_location_params(row)
BindingOf(e) ==
    IF e = "inventory" THEN upsert_inventory_binding ELSE upsert_location_binding

(***************************************************************************)
(* The flatten view: one record is flattened by its entity's flattener and *)
(* the row is bound by its entity's upsert_*.                              *)
(***************************************************************************)
InitFlat ==
    /\ fpc = "record"
    /\ fentity \in FlatEntities
    /\ record \in RecordsOf(fentity)
    /\ flat = EmptyMap
    /\ sinkParams = EmptyMap
    /\ inputObj = record
    /\ flatAgain = EmptyMap
    /\ PageIdle
    /\ RunIdle
    /\ LoadIdle
    /\ SinkIdle
    /\ MainIdle
    /\ MonthIdle
    /\ BacklogIdle

\* out: Dict[str, Any] = {} in flatten_one_level: the dict the flattener
\* assigns to (flat) is a new object, "out", not the object passed in, "d";
\* the nested mappings of d are only read
FlatObject_input == "d"
FlatObject == "out"

\* the content of the object passed in once the flattener has returned
InputAfterFlatten(e, obj) == IF FlatObject = "d" THEN FlattenOf(e, obj) ELSE obj

\* flattened = [_flatten_*_record(m) for m in ...]
FlattenRecord ==
    /\ fpc = "record"
    /\ flat' = FlattenOf(fentity, record)
    /\ inputObj' = InputAfterFlatten(fentity, inputObj)
    /\ fpc' = IF Raised(flat') THEN "raised" ELSE "flat"
    /\ UNCHANGED <<fentity, record, sinkParams, flatAgain>>
    /\ UNCHANGED notFlatVars

\* upsert_*(conn, chunk): the parameters bound for the row
BindRow ==
    /\ fpc = "flat"
    /\ sinkParams' = ParamsOf(fentity, flat)
    /\ fpc' = "bound"
    /\ UNCHANGED <<fentity, record, flat, inputObj, flatAgain>>
    /\ UNCHANGED notFlatVars

\* a second call of the flattener on the same dict object
FlattenAgain ==
    /\ fpc = "bound"
    /\ flatAgain' = FlattenOf(fentity, inputObj)
    /\ inputObj' = InputAfterFlatten(fentity, inputObj)
    /\ fpc' = "again"
    /\ UNCHANGED <<fentity, record, flat, sinkParams>>
    /\ UNCHANGED notFlatVars

NextFlat == FlattenRecord \/ BindRow \/ FlattenAgain

SpecFlat == InitFlat /\ [][NextFlat]_vars

(***************************************************************************)
(* C1: for every entity type and every source record whose top-level field *)
(* k is a nested mapping holding id, key and url, the Sink's columns k_id, *)
(* k_key, k_url carry those values, and the key the Sink reads for each of *)
(* these columns is a key the Flattener emitted.                           *)
(***************************************************************************)
C1_SinkCarriesReferences ==
    fpc = "bound" =>
        \A k \in DOMAIN record :
            (IsDict(record[k]) /\ RefKeys \subseteq DOMAIN record[k].d) =>
                \A s \in RefKeys :
                    Suffixed(k, s) \in DOMAIN sinkParams =>
                        /\ sinkParams[Suffixed(k, s)] = record[k].d[s]
                        /\ BindingOf(fentity)[Suffixed(k, s)] \in DOMAIN flat

\* a record with a full facility reference has been flattened and bound
C1_Witness ==
    /\ fpc = "bound"
    /\ fentity = "inventory"
    /\ "facility_id" \in DOMAIN record
    /\ record["facility_id"] = JDict(FullRef)
    /\ flat["facility_id_id"] = JInt("3")

(***************************************************************************)
(* utils.batched: the chunks, in order, each of at most n rows             *)
(***************************************************************************)
Min(a, b) == IF a <= b THEN a ELSE b

\* batched with the short last chunk lost
RECURSIVE batched_fullChunksOnly(_, _)
batched_fullChunksOnly(rows, n) ==
    IF Len(rows) < n THEN <<>>
    ELSE <<SubSeq(rows, 1, n)>> \o batched_fullChunksOnly(SubSeq(rows, n + 1, Len(rows)), n)

\* batched yielding one empty chunk for an empty row list
batched_emptyChunk(rows, n) ==
    IF rows = <<>> THEN << <<>> >>
    ELSE [c \in 1..((Len(rows) + n - 1) \div n) |->
             SubSeq(rows, (c - 1) * n + 1, Min(c * n, Len(rows)))]

RECURSIVE batched(_, _)
batched(rows, n) ==
    IF rows = <<>> THEN <<>>
    ELSE <<SubSeq(rows, 1, Min(n, Len(rows)))>>
         \o batched(SubSeq(rows, Min(n, Len(rows)) + 1, Len(rows)), n)

(***************************************************************************)
(* The entity runs: extract_and_upsert_inventory, _container, _location,   *)
(* _order_hdr, _order_dtl and _oblpn.                                      *)
(*                                                                         *)
(* fetch_all_sync is taken by its outcome for a window (SpecPage shows     *)
(* them): a list of n records, or one of the exceptions.  A detail fetch   *)
(* ends in a record, an empty mapping or a failure.                        *)
(***************************************************************************)
upsert_chunk_size == 500
batch_size == 50
concurrency == 10

MaxRecs == 3

Entities == {"inventory", "container", "location", "order_hdr", "order_dtl", "oblpn"}
DetailEntities == {"inventory", "oblpn"}
\* try: fetch; if not items: raise ValueError / except Exception: fetch again
BroadCatchEntities == {"container", "location", "order_hdr", "order_dtl"}

HTTPStatusErrors == {"404", "401", "500"}
FetchErrors == HTTPStatusErrors \cup {"timeout", "malformed", "AttributeError"}
FetchOutcomes ==
    {[kind |-> "ok", n |-> k] : k \in 0..MaxRecs}
    \cup {[kind |-> e, n |-> 0] : e \in FetchErrors}
DetailOutcomes == {"ok", "empty", "fail"}

\* the id of the k-th record of a window
IdNum(w, k) == IF w = "primary" THEN k ELSE 10 + k

SummaryRec(w, k, hasId) ==
    IF hasId
    THEN [id |-> JInt(ToString(IdNum(w, k))), curr_qty |-> JStr("7"),
          facility_id |-> JDict(FullRef)]
    ELSE [curr_qty |-> JStr("7"), facility_id |-> JDict(FullRef)]

\* the full record behind a summary: it adds the detail-only field status_id
DetailRec(eid) ==
    [id |-> eid, curr_qty |-> JStr("1.5"), status_id |-> JInt("0"),
     facility_id |-> JDict(FullRef)]

\* what _fetch_one (or the sequential fetch) yields for an id
DetailResult(eid, o) ==
    IF o = "ok" THEN JDict(DetailRec(eid))
    ELSE IF o = "empty" THEN JDict(EmptyMap)
    ELSE Null

RunFlattenOf(e, r) ==
    CASE e = "inventory" -> flatten_inventory_record(r)
      [] e = "container" -> flatten_container_record(r)
      [] e = "location" -> flatten_location_record(r)
      [] e = "order_hdr" -> flatten_order_hdr_record(r)
      [] e = "order_dtl" -> flatten_order_dtl_record(r)
      [] e = "oblpn" -> flatten_oblpn_record(r)

BatchOf(j) == ((j - 1) \div batch_size) + 1
NumBatches(n) == (n + batch_size - 1) \div batch_size

InitRun ==
    /\ rpc = "fetch_primary"
    /\ entity \in Entities
    /\ win \in [primary : FetchOutcomes, fallback : FetchOutcomes]
    /\ fetchCalls = <<>>
    /\ ritems = <<>>
    /\ ids = <<>>
    /\ tstate = <<>>
    /\ tresult = <<>>
    /\ sem = <<>>
    /\ completed = <<>>
    /\ detailOf = EmptyMap
    /\ all_details = <<>>
    /\ merged = <<>>
    /\ flattened = <<>>
    /\ chunkIdx = 0
    /\ total = 0
    /\ sinkLog = <<>>
    /\ txn = <<>>
    /\ retval = 0
    /\ rerr = "none"
    /\ FlatIdle
    /\ PageIdle
    /\ LoadIdle
    /\ SinkIdle
    /\ MainIdle
    /\ MonthIdle
    /\ BacklogIdle

detailFrame == <<ids, tstate, tresult, sem, completed, detailOf, all_details>>
tailFrame == <<merged, flattened, chunkIdx, total, sinkLog, txn>>

\* the run ends: return n / raise e
Return(n) == rpc' = "returned" /\ retval' = n /\ rerr' = rerr
RaiseOut(e) == rpc' = "raised" /\ rerr' = e /\ retval' = retval
GoTo(pc) == rpc' = pc /\ UNCHANGED <<retval, rerr>>

\* items = client.fetch_all_sync(entity, params): the records of window w
Fetched(w, n, has) == [k \in 1..n |-> SummaryRec(w, k, has[k])]

\* what follows a non-empty item list
AfterItems(e) == IF e \in DetailEntities THEN "details" ELSE "flatten"

\* the primary fetch and what the extractor does with its outcome
PrimaryStep(e, o, recs) ==
    IF e \in BroadCatchEntities THEN
        IF o.kind = "ok" /\ o.n > 0
        THEN ritems' = recs /\ GoTo(AfterItems(e))
        ELSE ritems' = (IF o.kind = "ok" THEN recs ELSE ritems) /\ GoTo("fetch_fallback")
    ELSE IF e = "oblpn" THEN
        IF o.kind = "ok"
        THEN ritems' = recs /\ GoTo(IF o.n > 0 THEN AfterItems(e) ELSE "fetch_fallback")
        ELSE IF o.kind = "404"
        THEN ritems' = <<>> /\ GoTo("fetch_fallback")
        ELSE UNCHANGED ritems /\ RaiseOut(o.kind)
    ELSE  \* inventory: no try, no fallback
        IF o.kind = "ok"
        THEN /\ ritems' = recs
             /\ IF o.n > 0 THEN GoTo(AfterItems(e)) ELSE Return(0)
        ELSE UNCHANGED ritems /\ RaiseOut(o.kind)

FetchPrimary ==
    /\ rpc = "fetch_primary"
    /\ fetchCalls' = Append(fetchCalls, "primary")
    /\ \E has \in [1..win.primary.n -> BOOLEAN] :
          PrimaryStep(entity, win.primary, Fetched("primary", win.primary.n, has))
    /\ UNCHANGED <<entity, win>>
    /\ UNCHANGED detailFrame
    /\ UNCHANGED tailFrame
    /\ UNCHANGED notRunVars

\* the fallback fetch (last 3 days, last 2 days, previous month)
FallbackStep(e, o, recs) ==
    IF o.kind = "ok"
    THEN /\ ritems' = recs
         /\ IF o.n > 0 THEN GoTo(AfterItems(e)) ELSE Return(0)
    ELSE IF e = "oblpn" /\ o.kind = "404"
    THEN UNCHANGED ritems /\ Return(0)
    ELSE UNCHANGED ritems /\ RaiseOut(o.kind)

FetchFallback ==
    /\ rpc = "fetch_fallback"
    /\ fetchCalls' = Append(fetchCalls, "fallback")
    /\ \E has \in [1..win.fallback.n -> BOOLEAN] :
          FallbackStep(entity, win.fallback, Fetched("fallback", win.fallback.n, has))
    /\ UNCHANGED <<entity, win>>
    /\ UNCHANGED detailFrame
    /\ UNCHANGED tailFrame
    /\ UNCHANGED notRunVars

\* ids = [it.get("id") for it in items if "id" in it]
IdsOf(recs) ==
    LET F[k \in 0..Len(recs)] ==
            IF k = 0 THEN <<>>
            ELSE IF "id" \in DOMAIN recs[k] THEN Append(F[k - 1], recs[k]["id"])
            ELSE F[k - 1]
    IN  F[Len(recs)]

\* asyncio.run(_gather_all()): one task per chunk of batch_size ids, each
\* chunk with its own Semaphore(concurrency) and one task per id
RunGather ==
    /\ rpc = "details"
    /\ ids' = IdsOf(ritems)
    /\ tstate' = [j \in 1..Len(ids') |-> "waiting"]
    /\ tresult' = [j \in 1..Len(ids') |-> Absent]
    /\ sem' = [b \in 1..NumBatches(Len(ids')) |-> concurrency]
    /\ GoTo("gather")
    /\ UNCHANGED <<entity, win, fetchCalls, ritems, completed, detailOf, all_details>>
    /\ UNCHANGED tailFrame
    /\ UNCHANGED notRunVars

\* asyncio.run raises RuntimeError: the sequential loop takes over
AsyncUnavailable ==
    /\ rpc = "details"
    /\ ids' = IdsOf(ritems)
    /\ GoTo("seq")
    /\ UNCHANGED <<entity, win, fetchCalls, ritems, tstate, tresult, sem, completed,
                   detailOf, all_details>>
    /\ UNCHANGED tailFrame
    /\ UNCHANGED notRunVars

\* _fetch_one: await sem.acquire(), then the detail request is in flight
Acquire(j) ==
    /\ rpc = "gather"
    /\ tstate[j] = "waiting"
    /\ sem[BatchOf(j)] > 0
    /\ sem' = [sem EXCEPT ![BatchOf(j)] = @ - 1]
    /\ tstate' = [tstate EXCEPT ![j] = "running"]
    /\ UNCHANGED <<rpc, retval, rerr, entity, win, fetchCalls, ritems, ids, tresult,
                   completed, detailOf, all_details>>
    /\ UNCHANGED tailFrame
    /\ UNCHANGED notRunVars

\* _fetch_one: the request ends (a record, or None on any exception);
\* finally: sem.release()
Complete(j) ==
    /\ rpc = "gather"
    /\ tstate[j] = "running"
    /\ \E o \in DetailOutcomes :
          /\ tresult' = [tresult EXCEPT ![j] = DetailResult(ids[j], o)]
          /\ detailOf' = Put(detailOf, ids[j].v, DetailResult(ids[j], o))
    /\ tstate' = [tstate EXCEPT ![j] = "done"]
    /\ sem' = [sem EXCEPT ![BatchOf(j)] = @ + 1]
    /\ completed' = Append(completed, j)
    /\ UNCHANGED <<rpc, retval, rerr, entity, win, fetchCalls, ritems, ids, all_details>>
    /\ UNCHANGED tailFrame
    /\ UNCHANGED notRunVars

\* results = await asyncio.gather(*tasks): the results in task order; the
\* chunks' lists are appended to all_details in chunk order
GatherResults_completionOrder == [k \in 1..Len(ids) |-> tresult[completed[k]]]
GatherResults == [k \in 1..Len(ids) |-> tresult[k]]

GatherDone ==
    /\ rpc = "gather"
    /\ \A j \in 1..Len(ids) : tstate[j] = "done"
    /\ all_details' = GatherResults
    /\ GoTo("merge")
    /\ UNCHANGED <<entity, win, fetchCalls, ritems, ids, tstate, tresult, sem, completed,
                   detailOf>>
    /\ UNCHANGED tailFrame
    /\ UNCHANGED notRunVars

\* for eid in ids: the id the sequential loop requests next
NextSeqId_reverse(idsq, done) == idsq[Len(idsq) - Len(done)]
NextSeqId(idsq, done) == idsq[Len(done) + 1]

\* for eid in ids: one synchronous detail request, None on any exception
SeqFetch ==
    /\ rpc = "seq"
    /\ Len(all_details) < Len(ids)
    /\ LET eid == NextSeqId(ids, all_details)
       IN  \E o \in DetailOutcomes :
              /\ all_details' = Append(all_details, DetailResult(eid, o))
              /\ detailOf' = Put(detailOf, eid.v, DetailResult(eid, o))
    /\ UNCHANGED <<rpc, retval, rerr, entity, win, fetchCalls, ritems, ids, tstate,
                   tresult, sem, completed>>
    /\ UNCHANGED tailFrame
    /\ UNCHANGED notRunVars

SeqDone ==
    /\ rpc = "seq"
    /\ Len(all_details) = Len(ids)
    /\ GoTo("merge")
    /\ UNCHANGED <<entity, win, fetchCalls, ritems>>
    /\ UNCHANGED detailFrame
    /\ UNCHANGED tailFrame
    /\ UNCHANGED notRunVars

\* for summary, detail in zip(items, all_details):
\*     merged.append(detail if isinstance(detail, dict) and detail else summary)
MergeOne(summary, detail) ==
    IF IsDict(detail) /\ Truthy(detail) THEN detail.d ELSE summary

Merge ==
    /\ rpc = "merge"
    /\ merged' = [k \in 1..Min(Len(ritems), Len(all_details)) |->
                     MergeOne(ritems[k], all_details[k])]
    /\ GoTo("flatten")
    /\ UNCHANGED <<entity, win, fetchCalls, ritems>>
    /\ UNCHANGED detailFrame
    /\ UNCHANGED <<flattened, chunkIdx, total, sinkLog, txn>>
    /\ UNCHANGED notRunVars

\* flattened = [_flatten_*_record(m) for m in merged]   (rec for rec in items)
ToFlatten == IF entity \in DetailEntities THEN merged ELSE ritems

FlattenAll ==
    /\ rpc = "flatten"
    /\ LET rows == [k \in 1..Len(ToFlatten) |-> RunFlattenOf(entity, ToFlatten[k])]
       IN  IF \E k \in 1..Len(rows) : Raised(rows[k])
           THEN UNCHANGED flattened /\ RaiseOut("OverflowError")
           ELSE flattened' = rows /\ GoTo("upsert")
    /\ UNCHANGED <<entity, win, fetchCalls, ritems>>
    /\ UNCHANGED detailFrame
    /\ UNCHANGED <<merged, chunkIdx, total, sinkLog, txn>>
    /\ UNCHANGED notRunVars

\* for chunk in batched(flattened, 500): total += upsert_*(conn, chunk)
NextChunkOf(rows, idx) == batched(rows, upsert_chunk_size)[idx + 1]
ChunksLeft(rows, idx) == idx < Len(batched(rows, upsert_chunk_size))

\* psycopg.connect(..., autocommit=False): a statement's effect is persisted by
\* conn.commit() only
autocommit_on == TRUE
autocommit == FALSE

\* where the Sink can fail in upsert_*: cur.executemany at the first row, at
\* the last row (the rows before it are applied), or conn.commit()
SinkFailPoints(chunk) == {0, Len(chunk) - 1, Len(chunk)}

\* what a failed upsert_* call leaves persisted after j rows were applied
PersistedOnFailure(log, chunk, j) ==
    IF autocommit /\ j > 0 THEN Append(log, SubSeq(chunk, 1, j)) ELSE log

\* upsert_*: executemany applies the chunk in the open transaction, conn.commit()
\* persists it and the call returns len(items); or the Sink raises, nothing is
\* committed and the exception leaves the extractor
UpsertChunk ==
    /\ rpc = "upsert"
    /\ ChunksLeft(flattened, chunkIdx)
    /\ chunkIdx' = chunkIdx + 1
    /\ \/ /\ sinkLog' = Append(sinkLog, NextChunkOf(flattened, chunkIdx))
          /\ total' = total + Len(NextChunkOf(flattened, chunkIdx))
          /\ UNCHANGED txn
          /\ GoTo("upsert")
       \/ \E j \in SinkFailPoints(NextChunkOf(flattened, chunkIdx)) :
          /\ sinkLog' = PersistedOnFailure(sinkLog, NextChunkOf(flattened, chunkIdx), j)
          /\ txn' = IF autocommit THEN <<>>
                    ELSE SubSeq(NextChunkOf(flattened, chunkIdx), 1, j)
          /\ UNCHANGED total
          /\ RaiseOut("SinkError")
    /\ UNCHANGED <<entity, win, fetchCalls, ritems>>
    /\ UNCHANGED detailFrame
    /\ UNCHANGED <<merged, flattened>>
    /\ UNCHANGED notRunVars

\* return total
ReturnTotal ==
    /\ rpc = "upsert"
    /\ ~ChunksLeft(flattened, chunkIdx)
    /\ Return(total)
    /\ UNCHANGED <<entity, win, fetchCalls, ritems>>
    /\ UNCHANGED detailFrame
    /\ UNCHANGED tailFrame
    /\ UNCHANGED notRunVars

NextRun ==
    \/ FetchPrimary
    \/ FetchFallback
    \/ RunGather
    \/ AsyncUnavailable
    \/ \E j \in 1..Len(ids) : Acquire(j)
    \/ \E j \in 1..Len(ids) : Complete(j)
    \/ GatherDone
    \/ SeqFetch
    \/ SeqDone
    \/ Merge
    \/ FlattenAll
    \/ UpsertChunk
    \/ ReturnTotal

SpecRun == InitRun /\ [][NextRun]_vars

(***************************************************************************)
(* The chunked upsert over row lists of any length: the loop               *)
(*     for chunk in batched(flattened, 500): total += upsert_*(conn, chunk)*)
(* of every extractor, entered with a non-empty list of flattened rows.    *)
(***************************************************************************)
MaxRows == 1001

RowList(n) == [k \in 1..n |-> [id |-> k]]

InitChunk ==
    /\ rpc = "upsert"
    /\ entity \in Entities
    /\ \E n \in 1..MaxRows : flattened = RowList(n)
    /\ win = [primary |-> [kind |-> "ok", n |-> 0], fallback |-> [kind |-> "ok", n |-> 0]]
    /\ fetchCalls = <<>>
    /\ ritems = <<>>
    /\ ids = <<>>
    /\ tstate = <<>>
    /\ tresult = <<>>
    /\ sem = <<>>
    /\ completed = <<>>
    /\ detailOf = EmptyMap
    /\ all_details = <<>>
    /\ merged = <<>>
    /\ chunkIdx = 0
    /\ total = 0
    /\ sinkLog = <<>>
    /\ txn = <<>>
    /\ retval = 0
    /\ rerr = "none"
    /\ FlatIdle
    /\ PageIdle
    /\ LoadIdle
    /\ SinkIdle
    /\ MainIdle
    /\ MonthIdle
    /\ BacklogIdle

NextChunk ==
    \/ UpsertChunk
    \/ ReturnTotal

SpecChunk == InitChunk /\ [][NextChunk]_vars

(***************************************************************************)
(* The detail load of one run over an id list of any length.  The tasks of *)
(* one _fetch_details_for_batch call are alike, so a call is its number of *)
(* waiting tasks and its semaphore's value: concurrency - lsem[b] of its   *)
(* requests are in flight.  _gather_all starts every call before it awaits *)
(* any of them.                                                            *)
(***************************************************************************)
MaxIds == 52

\* ids[i:i + batch_size]: the number of ids of the b-th chunk
BatchLen(n, b) == Min(batch_size, n - (b - 1) * batch_size)

InitLoad ==
    /\ lpc = "gather"
    /\ lids \in 1..MaxIds
    /\ lwaiting = [b \in 1..NumBatches(lids) |-> BatchLen(lids, b)]
    /\ lsem = [b \in 1..NumBatches(lids) |-> concurrency]
    /\ FlatIdle
    /\ PageIdle
    /\ RunIdle
    /\ SinkIdle
    /\ MainIdle
    /\ MonthIdle
    /\ BacklogIdle

\* async with sem: a task of call b gets a slot and sends its request
LoadAcquire(b) ==
    /\ lpc = "gather"
    /\ lwaiting[b] > 0
    /\ lsem[b] > 0
    /\ lwaiting' = [lwaiting EXCEPT ![b] = @ - 1]
    /\ lsem' = [lsem EXCEPT ![b] = @ - 1]
    /\ UNCHANGED <<lpc, lids>>
    /\ UNCHANGED notLoadVars

\* a request of call b ends (record or None) and its slot is released
LoadComplete(b) ==
    /\ lpc = "gather"
    /\ lsem[b] < concurrency
    /\ lsem' = [lsem EXCEPT ![b] = @ + 1]
    /\ UNCHANGED <<lpc, lids, lwaiting>>
    /\ UNCHANGED notLoadVars

\* every task of every call is done: asyncio.run returns
LoadDone ==
    /\ lpc = "gather"
    /\ \A b \in DOMAIN lsem : lwaiting[b] = 0 /\ lsem[b] = concurrency
    /\ lpc' = "done"
    /\ UNCHANGED <<lids, lwaiting, lsem>>
    /\ UNCHANGED notLoadVars

NextLoad ==
    \/ \E b \in DOMAIN lsem : LoadAcquire(b)
    \/ \E b \in DOMAIN lsem : LoadComplete(b)
    \/ LoadDone

SpecLoad == InitLoad /\ [][NextLoad]_vars

RECURSIVE SumTo(_, _)
SumTo(f, n) == IF n = 0 THEN 0 ELSE f[n] + SumTo(f, n - 1)

\* the detail requests in flight
InFlight == SumTo([b \in DOMAIN lsem |-> concurrency - lsem[b]], Len(lsem))

(***************************************************************************)
(* Claims on the detail fan-out and the entity runs.                       *)
(***************************************************************************)
Terminal == rpc \in {"returned", "raised"}
Ok(n) == [kind |-> "ok", n |-> n]

\* C2: during the detail enrichment of one run, for an id list of any length,
\* the number of detail requests in flight never exceeds concurrency (10).
C2_InFlightWithinLimit == InFlight <= concurrency

\* 51 ids: the first call's ten slots are taken and the second call's task runs
C2_Witness ==
    /\ lids = batch_size + 1
    /\ lsem = <<0, concurrency - 1>>

\* C3: the fan-out preserves positions: once the results are gathered,
\* all_details has one entry per id and entry k is what the fetch for ids[k]
\* produced (null for a failed fetch), for every completion order and every
\* set of failing fetches.
C3_FanOutPreservesPositions ==
    (entity \in DetailEntities /\ rpc \in {"merge", "flatten", "upsert", "returned", "raised"}
        /\ Len(fetchCalls) > 0 /\ ritems # <<>> /\ rerr \notin FetchErrors) =>
        /\ Len(all_details) = Len(ids)
        /\ \A k \in 1..Len(ids) : all_details[k] = detailOf[ids[k].v]

\* three fetches completed out of task order, the second one failed
C3_Witness ==
    /\ rpc = "merge"
    /\ Len(ids) = 3
    /\ completed = <<3, 1, 2>>
    /\ all_details[1] = JDict(DetailRec(ids[1]))
    /\ all_details[2] = Null
    /\ all_details[3] = JDict(DetailRec(ids[3]))

\* the detail fetch for the summary at position k ended in a non-empty record
DetailSucceeded(k) ==
    /\ "id" \in DOMAIN ritems[k]
    /\ ritems[k]["id"].v \in DOMAIN detailOf
    /\ IsDict(detailOf[ritems[k]["id"].v])
    /\ Truthy(detailOf[ritems[k]["id"].v])

\* C4: an inventory run over N fetched summaries, whichever detail fetches
\* fail, submits exactly N rows and returns N; the row of a summary whose
\* detail fetch succeeded is the flatten of that detail record, the row of
\* any other summary is the flatten of the summary.
C4_DetailFailureKeepsEveryRow ==
    (entity = "inventory" /\ rpc = "returned" /\ ritems # <<>>) =>
        /\ retval = Len(ritems)
        /\ Len(flattened) = Len(ritems)
        /\ \A k \in 1..Len(ritems) :
              k <= Len(flattened) =>
                  flattened[k] =
                      IF DetailSucceeded(k)
                      THEN flatten_inventory_record(detailOf[ritems[k]["id"].v].d)
                      ELSE flatten_inventory_record(ritems[k])

\* an inventory run returned after one of its detail fetches failed
C4_Witness ==
    /\ entity = "inventory"
    /\ rpc = "returned"
    /\ Len(ritems) = 3
    /\ \E k \in 1..Len(all_details) : all_details[k] = Null

\* C6: for every windowed entity run, when the primary window holds no record
\* and the fallback window holds N, the run fetches the fallback window and
\* returns N without raising.
C6_EmptyWindowFallback ==
    (Terminal /\ win.primary = Ok(0) /\ win.fallback.kind = "ok" /\ win.fallback.n > 0
        /\ rerr # "SinkError") =>
        /\ fetchCalls = <<"primary", "fallback">>
        /\ rpc = "returned"
        /\ retval = win.fallback.n

\* a run fell back to a window of three records and returned
C6_Witness ==
    /\ rpc = "returned"
    /\ win.primary = Ok(0)
    /\ win.fallback = Ok(3)
    /\ fetchCalls = <<"primary", "fallback">>

\* C7: for every windowed entity run, when each window is empty or answered
\* with 404, the run returns 0 and no exception leaves the extractor.
EmptyOr404(o) == o = Ok(0) \/ o.kind = "404"

C7_EmptyOr404ReturnsZero ==
    (Terminal /\ EmptyOr404(win.primary) /\ EmptyOr404(win.fallback)) =>
        /\ rpc = "returned"
        /\ retval = 0

\* a run whose fallback fetch was answered with 404 has ended
C7_Witness ==
    /\ Terminal
    /\ win.primary = Ok(0)
    /\ win.fallback.kind = "404"
    /\ fetchCalls = <<"primary", "fallback">>

\* C8: when the primary fetch fails with a permanent request error (401, a
\* malformed response), no further fetch is issued, the error leaves the
\* extractor and no row is submitted to the Sink.
PermanentErrors == {"401", "malformed"}

C8_PermanentErrorAborts ==
    (win.primary.kind \in PermanentErrors /\ Len(fetchCalls) > 0) =>
        /\ fetchCalls = <<"primary">>
        /\ rpc = "raised"
        /\ rerr = win.primary.kind
        /\ sinkLog = <<>>

\* a run whose primary fetch was answered with 401 has ended
C8_Witness ==
    /\ Terminal
    /\ win.primary.kind = "401"

(***************************************************************************)
(* Claims on the chunked upsert.                                           *)
(***************************************************************************)
RECURSIVE Concat(_)
Concat(seqs) == IF seqs = <<>> THEN <<>> ELSE Head(seqs) \o Concat(Tail(seqs))

\* C10: the batches are submitted in list order, each is non-empty and has at
\* most 500 rows, every batch but the last has exactly 500, their
\* concatenation is the row list, and the returned total is the number of rows.
C10_ChunkedUpsert ==
    /\ \A i \in 1..Len(sinkLog) : Len(sinkLog[i]) \in 1..upsert_chunk_size
    /\ \A i \in 1..(Len(sinkLog) - 1) : Len(sinkLog[i]) = upsert_chunk_size
    /\ rerr = "none" => Concat(sinkLog) = SubSeq(flattened, 1, total)
    /\ rpc = "returned" =>
          /\ Concat(sinkLog) = flattened
          /\ retval = Len(flattened)

\* two full batches and a last batch of one row were submitted
C10_Witness ==
    /\ rpc = "returned"
    /\ Len(flattened) = 2 * upsert_chunk_size + 1
    /\ Len(sinkLog) = 3
    /\ Len(sinkLog[3]) = 1

\* C11: if the Sink fails while applying batch k of a chunked upsert, the rows
\* of batches 1..k-1 stay persisted, none of batch k's rows is persisted, no
\* later batch is submitted and the error leaves the extractor.
C11_FailedBatchIsAtomic ==
    rerr = "SinkError" =>
        /\ rpc = "raised"
        /\ sinkLog = SubSeq(batched(flattened, upsert_chunk_size), 1, chunkIdx - 1)
        /\ Concat(sinkLog) = SubSeq(flattened, 1, (chunkIdx - 1) * upsert_chunk_size)

\* the Sink failed at the last row of the second batch of three: the first
\* batch is persisted, 499 rows of the second were applied and not committed
C11_Witness ==
    /\ rpc = "raised"
    /\ rerr = "SinkError"
    /\ Len(flattened) = 2 * upsert_chunk_size + 1
    /\ chunkIdx = 2
    /\ Len(sinkLog) = 1
    /\ Len(txn) = upsert_chunk_size - 1

(***************************************************************************)
(* db.py: upsert_* against its table.  One statement per row:              *)
(*     insert into t (columns) values (...)                                *)
(*     on conflict (id) do update set c = excluded.c, ...                  *)
(* The table is the list of its stored rows; id is its primary key.  The   *)
(* columns kept are those of the bindings above.                           *)
(***************************************************************************)
upsert_container_status_binding == [id |-> "id", description |-> "description"]

\* the columns named in "do update set"
upsert_inventory_set ==
    {"facility_id_id", "facility_id_key", "facility_id_url", "location_id", "curr_qty",
     "status_id"}
upsert_container_status_set == {"description"}

SinkEntities == {"inventory", "container_status"}
SinkColumns(e) ==
    IF e = "inventory" THEN DOMAIN upsert_inventory_binding
    ELSE DOMAIN upsert_container_status_binding
SinkUpdateSet(e) ==
    IF e = "inventory" THEN upsert_inventory_set ELSE upsert_container_status_set

MaxBatch == 2

SinkIds == {JInt("1"), JInt("2")}
SinkRows(e) ==
    IF e = "inventory"
    THEN {[c \in SinkColumns(e) |->
              CASE c = "id" -> i
                [] c = "create_ts" -> t
                [] c = "curr_qty" -> q
                [] OTHER -> Null] :
            i \in SinkIds,
            t \in {JStr("2024-05-01T10:00:00"), JStr("2024-06-01T10:00:00")},
            q \in {JFloat("1.5"), JFloat("0.0")}}
    ELSE {[id |-> i, description |-> d] : i \in SinkIds, d \in {JStr("Located"), Null}}

\* the stored rows whose primary key is the key of the submitted row
Conflicts(tbl, row) == {i \in 1..Len(tbl) : tbl[i]["id"] = row["id"]}

\* insert ... on conflict (id) do update set ...: one submitted row
UpsertRow_plainInsert(e, tbl, row) == Append(tbl, row)
UpsertRow(e, tbl, row) ==
    IF Conflicts(tbl, row) = {} THEN Append(tbl, row)
    ELSE [i \in 1..Len(tbl) |->
             IF i \in Conflicts(tbl, row)
             THEN [c \in DOMAIN tbl[i] |->
                      IF c \in SinkUpdateSet(e) THEN row[c] ELSE tbl[i][c]]
             ELSE tbl[i]]

\* cur.executemany(sql, [params of each item]): the rows in list order
RECURSIVE ExecuteMany(_, _, _)
ExecuteMany(e, tbl, rows) ==
    IF rows = <<>> THEN tbl
    ELSE ExecuteMany(e, UpsertRow(e, tbl, Head(rows)), Tail(rows))

RECURSIVE SeqsUpTo(_, _)
SeqsUpTo(S, n) ==
    IF n = 0 THEN {<<>>}
    ELSE SeqsUpTo(S, n - 1) \cup {Append(q, x) : q \in SeqsUpTo(S, n - 1), x \in S}

UniqueIds(tbl) == \A i, j \in 1..Len(tbl) : tbl[i]["id"] = tbl[j]["id"] => i = j

InitSink ==
    /\ sentity \in SinkEntities
    /\ table \in {t \in SeqsUpTo(SinkRows(sentity), 1) : UniqueIds(t)}
    /\ sbatch \in SeqsUpTo(SinkRows(sentity), MaxBatch)
    /\ scalls = <<>>
    /\ FlatIdle
    /\ PageIdle
    /\ RunIdle
    /\ LoadIdle
    /\ MainIdle
    /\ MonthIdle
    /\ BacklogIdle

\* upsert_*(conn, rows): returns 0 on an empty list; else executemany and
\* conn.commit(), returning len(items); or the Sink raises and nothing of the
\* call is committed
UpsertCall ==
    /\ Len(scalls) < 2
    /\ \/ /\ table' = (IF sbatch = <<>> THEN table ELSE ExecuteMany(sentity, table, sbatch))
          /\ scalls' = Append(scalls, [result |-> "ok", returned |-> Len(sbatch),
                                       committed |-> sbatch # <<>>, table |-> table'])
       \/ /\ sbatch # <<>>
          /\ table' = table
          /\ scalls' = Append(scalls, [result |-> "raised", returned |-> 0,
                                       committed |-> FALSE, table |-> table])
    /\ UNCHANGED <<sentity, sbatch>>
    /\ UNCHANGED notSinkVars

NextSink == UpsertCall

SpecSink == InitSink /\ [][NextSink]_vars

\* C12: upsert is idempotent: submitting a batch twice leaves the table as
\* submitting it once did (same ids, same column values).
C12_UpsertIdempotent ==
    (Len(scalls) = 2 /\ scalls[1].result = "ok" /\ scalls[2].result = "ok") =>
        scalls[2].table = scalls[1].table

\* a batch of two rows, the first of them in conflict with the stored row,
\* was submitted twice
C12_Witness ==
    /\ Len(scalls) = 2
    /\ scalls[1].result = "ok"
    /\ scalls[2].result = "ok"
    /\ sentity = "inventory"
    /\ Len(sbatch) = 2
    /\ sbatch[1]["id"] # sbatch[2]["id"]
    /\ Len(scalls[1].table) = 2
    /\ scalls[1].table[1]["id"] = sbatch[1]["id"]
    /\ scalls[1].table[1]["create_ts"] # sbatch[1]["create_ts"]

\* C13: after upsert_*, every submitted row is stored under its primary key
\* with the submitted values in all columns, whether the key was absent
\* (insert) or present (overwrite); the rows of the batch have distinct keys.
C13_StoredRowEqualsSubmitted ==
    (Len(scalls) >= 1 /\ scalls[1].result = "ok" /\ UniqueIds(sbatch)) =>
        \A k \in 1..Len(sbatch) :
            \E i \in 1..Len(scalls[1].table) : scalls[1].table[i] = sbatch[k]

\* a row was submitted whose primary key was already stored
C13_Witness ==
    /\ Len(scalls) = 1
    /\ scalls[1].result = "ok"
    /\ sentity = "inventory"
    /\ Len(sbatch) = 1
    /\ Len(scalls[1].table) = 1
    /\ scalls[1].table[1]["curr_qty"] = sbatch[1]["curr_qty"]
    /\ scalls[1].table[1]["create_ts"] # sbatch[1]["create_ts"]

\* C14: schema stability: the rows a flattener produces all have the same key
\* set, the one it produces for a record without any optional field, whatever
\* fields (present, absent, null, empty mapping) the source record had.
C14_SchemaStable ==
    fpc \in {"flat", "bound"} => DOMAIN flat = DOMAIN FlattenOf(fentity, EmptyMap)

\* a location record without area and with an empty type_id was flattened
C14_Witness ==
    /\ fpc = "flat"
    /\ fentity = "location"
    /\ "area" \notin DOMAIN record
    /\ "type_id" \in DOMAIN record
    /\ record["type_id"] = JDict(EmptyMap)

(***************************************************************************)
(* main.py: main().  The connection and the client are built from          *)
(* config.json, then the seven extractors run one after the other inside   *)
(*     with get_connection() as conn: with WMSClient() as client: ...      *)
(* An extractor is taken by what SpecRun shows of it: its fetches end with *)
(* records, with none or with an exception; its upsert commits or raises.  *)
(* Leaving "with conn" on an exception rolls the open transaction back and *)
(* closes the connection (psycopg); a commit is never undone.              *)
(***************************************************************************)
Extractors ==
    <<"inventory", "container", "container_status", "location", "order_status",
      "order_hdr", "order_dtl">>

\* container_status.py, order_status.py: items = client.fetch_all(...), a method
\* WMSClient does not have
FetchAllCallers == {"container_status", "order_status"}

WmsFields == {"base_url", "username", "password"}
DbFields == {"host", "port", "user", "pg_password", "database"}
RequiredFields == WmsFields \cup DbFields
FieldStates == {"set", "empty", "missing"}

\* AppConfig.load: cls.parse_obj(raw) rejects a config.json without a required field
MissingAtLoad(cfg) == {f \in RequiredFields : cfg[f] = "missing"}

\* DatabaseSettings.__init__: [var for var in required_vars if not getattr(self, var)]
missing_vars(cfg) == {f \in DbFields : cfg[f] # "set"}

\* WMSClient.__init__: not all([self.base_url, self.username, self.password])
WMSClientIncomplete_never(cfg) == FALSE
WMSClientIncomplete(cfg) == \E f \in WmsFields : cfg[f] # "set"

Event(ev, e, ok) == [ev |-> ev, e |-> e, ok |-> ok]

InitMain ==
    /\ mpc = "start"
    /\ config \in [RequiredFields -> FieldStates]
    /\ mstep = 0
    /\ mevents = <<>>
    /\ persisted = <<>>
    /\ mtxn = "none"
    /\ merr = "none"
    /\ FlatIdle
    /\ PageIdle
    /\ RunIdle
    /\ LoadIdle
    /\ SinkIdle
    /\ MonthIdle
    /\ BacklogIdle

\* with get_connection() as conn: DatabaseSettings() loads and validates
\* config.json, then psycopg.connect(...)
GetConnection ==
    /\ mpc = "start"
    /\ IF MissingAtLoad(config) # {}
       THEN mpc' = "raised" /\ merr' = "ValidationError" /\ UNCHANGED mevents
       ELSE IF missing_vars(config) # {}
       THEN mpc' = "raised" /\ merr' = "ValueError" /\ UNCHANGED mevents
       ELSE /\ mpc' = "client"
            /\ mevents' = Append(mevents, Event("connect", "db", TRUE))
            /\ UNCHANGED merr
    /\ UNCHANGED <<config, mstep, persisted, mtxn>>
    /\ UNCHANGED notMainVars

\* with WMSClient() as client:
InitClient ==
    /\ mpc = "client"
    /\ IF WMSClientIncomplete(config)
       THEN mpc' = "unwind" /\ merr' = "ValueError" /\ UNCHANGED mstep
       ELSE mpc' = "extract" /\ mstep' = 1 /\ UNCHANGED merr
    /\ UNCHANGED <<config, mevents, persisted, mtxn>>
    /\ UNCHANGED notMainVars

\* what main does when an extractor raises: nothing catches the exception
\* before the except clause of main
OnExtractorError_continue == "continue"
OnExtractorError == "unwind"

ExtractorRaises(err) ==
    /\ merr' = err
    /\ IF OnExtractorError = "unwind"
       THEN mpc' = "unwind" /\ UNCHANGED mstep
       ELSE mpc' = "extract" /\ mstep' = mstep + 1

\* x_count = extract_and_upsert_x(client, conn): the call
StartExtractor ==
    /\ mpc = "extract"
    /\ mstep \in 1..Len(Extractors)
    /\ mevents' = Append(mevents, Event("start", Extractors[mstep], TRUE))
    /\ mpc' = "fetch"
    /\ UNCHANGED <<config, mstep, persisted, mtxn, merr>>
    /\ UNCHANGED notMainVars

\* the extractor's fetches: client.fetch_all raises AttributeError before any
\* request; client.fetch_all_sync (and the detail requests) end with records,
\* with no record or with an exception
ExtractorFetch ==
    /\ mpc = "fetch"
    /\ IF Extractors[mstep] \in FetchAllCallers
       THEN /\ mevents' = Append(mevents, Event("raise", Extractors[mstep], FALSE))
            /\ ExtractorRaises("AttributeError")
       ELSE \/ /\ mevents' = Append(mevents, Event("api", Extractors[mstep], TRUE))
               /\ mpc' \in {"upsert", "return"}
               /\ UNCHANGED <<mstep, merr>>
            \/ /\ mevents' = mevents \o <<Event("api", Extractors[mstep], FALSE),
                                         Event("raise", Extractors[mstep], FALSE)>>
               /\ ExtractorRaises("HTTPError")
    /\ UNCHANGED <<config, persisted, mtxn>>
    /\ UNCHANGED notMainVars

\* the extractor's chunked upsert: the rows are committed, or the Sink raises
\* with rows applied in the open transaction
ExtractorUpsert ==
    /\ mpc = "upsert"
    /\ \/ /\ mevents' = Append(mevents, Event("sink", Extractors[mstep], TRUE))
          /\ persisted' = Append(persisted, Extractors[mstep])
          /\ mpc' = "return"
          /\ UNCHANGED <<mstep, mtxn, merr>>
       \/ /\ mevents' = mevents \o <<Event("sink", Extractors[mstep], FALSE),
                                    Event("raise", Extractors[mstep], FALSE)>>
          /\ mtxn' = Extractors[mstep]
          /\ UNCHANGED persisted
          /\ ExtractorRaises("SinkError")
    /\ UNCHANGED config
    /\ UNCHANGED notMainVars

\* the extractor returns its count; after the last one both with blocks are
\* left normally and main returns
ExtractorReturn ==
    /\ mpc = "return"
    /\ mevents' = Append(mevents, Event("return", Extractors[mstep], TRUE))
    /\ mstep' = mstep + 1
    /\ mpc' = IF mstep = Len(Extractors) THEN "done" ELSE "extract"
    /\ UNCHANGED <<config, persisted, mtxn, merr>>
    /\ UNCHANGED notMainVars

\* the exception leaves both with blocks (client closed, transaction rolled
\* back, connection closed); except Exception as e: print(...); raise
Unwind ==
    /\ mpc = "unwind"
    /\ mevents' = Append(mevents, Event("rollback", "db", TRUE))
    /\ mtxn' = "none"
    /\ mpc' = "raised"
    /\ UNCHANGED <<config, mstep, persisted, merr>>
    /\ UNCHANGED notMainVars

NextMain ==
    \/ GetConnection
    \/ InitClient
    \/ StartExtractor
    \/ ExtractorFetch
    \/ ExtractorUpsert
    \/ ExtractorReturn
    \/ Unwind

SpecMain == InitMain /\ [][NextMain]_vars

(***************************************************************************)
(* Claims on the orchestration.                                            *)
(***************************************************************************)
ConfigComplete == \A f \in RequiredFields : config[f] = "set"
Healthy == \A i \in 1..Len(mevents) : mevents[i].ev \in {"api", "sink"} => mevents[i].ok
Started == SelectSeq(mevents, LAMBDA x : x.ev = "start")

\* C15: when every API request succeeds and the Sink is healthy, main runs the
\* seven extractors in the order inventory, container, container status,
\* location, order status, order header, order detail and completes without
\* raising.
C15_MainRunsAllExtractors ==
    (mpc \in {"done", "raised"} /\ ConfigComplete /\ Healthy) =>
        /\ mpc = "done"
        /\ [i \in 1..Len(Started) |-> Started[i].e] = Extractors

\* main has ended after inventory and container returned, no request and no
\* Sink call having failed
C15_Witness ==
    /\ mpc \in {"done", "raised"}
    /\ ConfigComplete
    /\ Healthy
    /\ persisted = <<"inventory", "container">>

\* C16: once an extractor raises, main starts no later extractor, issues no
\* further API request or Sink write and re-raises; the rows committed by the
\* earlier extractors stay persisted.
C16_AbortOnFirstError ==
    /\ \A i, j \in 1..Len(mevents) :
          (i < j /\ mevents[i].ev = "raise") => mevents[j].ev \notin {"start", "api", "sink"}
    /\ merr # "none" => mpc \in {"unwind", "raised"}
    /\ persisted = [i \in 1..Len(SelectSeq(mevents, LAMBDA x : x.ev = "sink" /\ x.ok)) |->
                       SelectSeq(mevents, LAMBDA x : x.ev = "sink" /\ x.ok)[i].e]

\* the Sink failed in the container extractor after the inventory rows were
\* committed, and main has re-raised
C16_Witness ==
    /\ mpc = "raised"
    /\ merr = "SinkError"
    /\ mstep = 2
    /\ persisted = <<"inventory">>
    /\ mtxn = "none"

\* C17: if a required configuration field is missing (or empty), main fails at
\* startup: no extractor is started, no API request is sent and no row is
\* written.
C17_MissingConfigFailsAtStartup ==
    ~ConfigComplete =>
        /\ mpc \in {"start", "client", "unwind", "raised"}
        /\ \A i \in 1..Len(mevents) : mevents[i].ev \in {"connect", "rollback"}
        /\ persisted = <<>>

\* main has failed on a config.json without base_url
C17_Witness ==
    /\ mpc = "raised"
    /\ config["base_url"] = "missing"
    /\ \A f \in RequiredFields \ {"base_url"} : config[f] = "set"
    /\ merr = "ValidationError"

\* C18: pagination is strictly sequential: the pages requested are 1, 2, 3, ...
\* without gap or repeat, a page is requested only after the response of the
\* page before it was received, and at most one request is in flight.
PageRequestsInFlight == IF ppc = "await" THEN 1 ELSE 0
PagesAnswered == Len(reqlog) - PageRequestsInFlight

C18_PaginationSequential ==
    /\ reqlog = [i \in 1..Len(reqlog) |-> i]
    /\ PageRequestsInFlight <= 1
    /\ ppc = "await" => page = Len(reqlog)
    /\ ppc = "request" => (PagesAnswered = page - 1 /\ Len(items) = PagesAnswered * page_size)

\* three full pages were requested one after the other, then the empty one
C18_Witness ==
    /\ ppc = "returned"
    /\ reqlog = <<1, 2, 3, 4>>
    /\ Len(items) = 3 * page_size

\* C19: when asyncio.run raises RuntimeError the details are fetched one id
\* at a time in input order, a failed request leaves a null at its position,
\* and the merged list is the one the concurrent path builds from the same
\* per-id outcomes.
SequentialPath == rpc \in {"seq", "merge", "flatten", "upsert"} /\ Len(ids) > 0 /\ tstate = <<>>
ConcurrentPath == rpc \in {"merge", "flatten", "upsert"} /\ Len(ids) > 0 /\ tstate # <<>>
OutcomeOf(eid) == IF eid.v \in DOMAIN detailOf THEN detailOf[eid.v] ELSE Absent
DetailsByOutcome == [k \in 1..Len(ids) |-> OutcomeOf(ids[k])]
MergedByOutcome ==
    [k \in 1..Min(Len(ritems), Len(ids)) |-> MergeOne(ritems[k], OutcomeOf(ids[k]))]

C19_SequentialDegradation ==
    /\ SequentialPath =>
          /\ Len(all_details) <= Len(ids)
          /\ \A k \in 1..Len(all_details) : all_details[k] = OutcomeOf(ids[k])
          /\ rpc # "seq" => all_details = DetailsByOutcome
          /\ rpc \in {"flatten", "upsert"} => merged = MergedByOutcome
    /\ (ConcurrentPath /\ rpc \in {"flatten", "upsert"}) => merged = MergedByOutcome

\* the sequential loop ran over three ids; the first request failed, the last
\* one returned a record
C19_Witness ==
    /\ SequentialPath
    /\ rpc = "flatten"
    /\ Len(ids) = 3
    /\ Len(ritems) = 3
    /\ all_details[1] = Null
    /\ IsDict(all_details[3]) /\ Truthy(all_details[3])
    /\ merged[1] = ritems[1]
    /\ merged[3] = all_details[3].d

\* C20: a coercion error is recovered per field: every flattener returns a
\* row without raising, the field that cannot be parsed becomes null and the
\* other fields of the row are the ones the record without that field gives.
Unparseable(x) == x \notin NullTokens /\ IsRaise(PyInt(x))
WithoutField(r, f) == [k \in (DOMAIN r) \ {f} |-> r[k]]
OtherColumns(row, f) == [c \in (DOMAIN row) \ {f} |-> row[c]]

C20_CoercionErrorRecoveredPerField ==
    /\ fpc # "raised"
    /\ (/\ fpc \in {"flat", "bound"}
        /\ fentity = "location"
        /\ "max_lpns" \in DOMAIN record
        /\ Unparseable(record["max_lpns"]))
       => /\ flat["max_lpns"] = Null
          /\ OtherColumns(flat, "max_lpns")
                = OtherColumns(FlattenOf(fentity, WithoutField(record, "max_lpns")), "max_lpns")

\* a location record whose max_lpns is the float infinity went through
\* _flatten_location_record
C20_Witness ==
    /\ fpc # "record"
    /\ fentity = "location"
    /\ "max_lpns" \in DOMAIN record
    /\ record["max_lpns"] = JFloat("inf")
    /\ "id" \in DOMAIN record

\* C21: after _flatten_inventory_record every integer column present in the
\* row holds an integer or null, whatever the source representation was.
IsIntOrNull(x) == x.t \in {"int", "null"}

C21_InventoryIntColumnsAreInts ==
    (fentity = "inventory" /\ fpc \in {"flat", "bound"})
    => \A c \in InventoryIntFields \cap DOMAIN flat : IsIntOrNull(flat[c])

\* an inventory record whose facility reference carries a non-numeric
\* string id, and whose own id is a numeric string, was flattened
C21_Witness ==
    /\ fentity = "inventory"
    /\ fpc = "flat"
    /\ "facility_id" \in DOMAIN record
    /\ IsDict(record["facility_id"])
    /\ "id" \in DOMAIN record["facility_id"].d
    /\ record["facility_id"].d["id"] = JStr("x")
    /\ "id" \in DOMAIN record
    /\ record["id"] = JStr("7")
    /\ flat["id"] = JInt("7")

\* C22: the quantity columns of every inventory row bound for the Sink are
\* never null: a null, empty, "null", unparseable or absent source value is
\* stored as 0.0 and a numeric string as its numeric value.
QtyExpected(rec, q) ==
    IF q \notin DOMAIN rec THEN JFloat("0.0")
    ELSE IF rec[q] \in NullTokens \/ IsRaise(PyFloat(rec[q])) THEN JFloat("0.0")
    ELSE PyFloat(rec[q])

C22_InventoryQuantitiesNeverNull ==
    (fentity = "inventory" /\ fpc = "bound")
    => \A q \in InventoryQtyFields \cap DOMAIN sinkParams :
          /\ sinkParams[q] # Null
          /\ sinkParams[q] = QtyExpected(record, q)

\* an inventory record that carries no curr_qty was flattened and bound
C22_Witness ==
    /\ fentity = "inventory"
    /\ fpc = "bound"
    /\ "curr_qty" \notin DOMAIN record
    /\ "id" \in DOMAIN record
    /\ "curr_qty" \in DOMAIN sinkParams

\* C23: _safe_bool returns a native boolean unchanged, keeps null, turns a
\* string that case-insensitively equals true, t, 1, yes or y into true, and
\* turns any other value into null or into its generic truthiness.
IsTruthyToken(x) ==
    x.t = "str" /\ (IF x.v \in DOMAIN Lower THEN Lower[x.v] ELSE x.v) \in TruthyTokens
Truthiness(x) == JBool(IF Truthy(x) THEN "true" ELSE "false")

C23_BooleanCoercion ==
    (/\ fentity = "location"
     /\ fpc \in {"flat", "bound"}
     /\ "allow_multi_sku" \in DOMAIN record)
    => LET x == record["allow_multi_sku"]
           y == flat["allow_multi_sku"]
       IN  CASE x.t = "bool" -> y = x
             [] x.t = "null" -> y = Null
             [] IsTruthyToken(x) -> y = JBool("true")
             [] OTHER -> y \in {Null, Truthiness(x)}

\* a location record whose allow_multi_sku is the string "no" was flattened
C23_Witness ==
    /\ fentity = "location"
    /\ fpc = "flat"
    /\ "allow_multi_sku" \in DOMAIN record
    /\ record["allow_multi_sku"] = JStr("no")
    /\ "id" \in DOMAIN record

Months == 1..12

\* prev_month = current_month - 1 or 12   (x or y: y when x is falsy, i.e. 0)
prev_month_minusOne(m) == m - 1
prev_month(m) == IF m - 1 # 0 THEN m - 1 ELSE 12

InitMonth ==
    /\ locpc = "fetch_primary"
    /\ current_month \in Months
    /\ locwin \in [primary : FetchOutcomes, fallback : FetchOutcomes]
    /\ monthsSent = <<>>
    /\ FlatIdle
    /\ PageIdle
    /\ RunIdle
    /\ LoadIdle
    /\ SinkIdle
    /\ MainIdle
    /\ BacklogIdle

\* params = {"create_ts__month": current_month}; items = client.fetch_all_sync(...)
\* if not items: raise ValueError   /   except Exception: the fallback follows
LocFetchPrimary ==
    /\ locpc = "fetch_primary"
    /\ monthsSent' = Append(monthsSent, current_month)
    /\ locpc' = IF locwin.primary.kind = "ok" /\ locwin.primary.n > 0
                THEN "flatten" ELSE "fetch_fallback"
    /\ UNCHANGED <<current_month, locwin>>
    /\ UNCHANGED notMonthVars

\* params = {"create_ts__month": prev_month}; items = client.fetch_all_sync(...)
LocFetchFallback ==
    /\ locpc = "fetch_fallback"
    /\ monthsSent' = Append(monthsSent, prev_month(current_month))
    /\ locpc' = IF locwin.fallback.kind # "ok" THEN "raised"
                ELSE IF locwin.fallback.n > 0 THEN "flatten" ELSE "returned"
    /\ UNCHANGED <<current_month, locwin>>
    /\ UNCHANGED notMonthVars

NextMonth == LocFetchPrimary \/ LocFetchFallback

SpecMonth == InitMonth /\ [][NextMonth]_vars

\* C25: in location extraction the create_ts__month filter sent is always in
\* 1..12: the primary window is the current month m, the fallback window the
\* previous calendar month, m - 1 for m in 2..12 and 12 for m = 1.
C25_MonthFilterInRange ==
    /\ \A k \in 1..Len(monthsSent) : monthsSent[k] \in 1..12
    /\ Len(monthsSent) >= 1 => monthsSent[1] = current_month
    /\ Len(monthsSent) >= 2 =>
          monthsSent[2] = (IF current_month = 1 THEN 12 ELSE current_month - 1)

\* in January the primary window was empty and the fallback fetch was sent
C25_Witness ==
    /\ current_month = 1
    /\ locwin.primary = [kind |-> "ok", n |-> 0]
    /\ monthsSent = <<1, 12>>
    /\ locpc # "fetch_fallback"

\* C26: the empty-result fallback is tried once: an entity run issues at most
\* two fetchAll calls, the primary window and then one fallback window, and
\* the fallback call is issued only after the primary call returned zero
\* records or reported not-found.
PrimaryEmptyOrNotFound ==
    \/ win.primary.kind = "ok" /\ win.primary.n = 0
    \/ win.primary.kind = "404"

C26_FallbackTriedOnce ==
    /\ fetchCalls \in {<<>>, <<"primary">>, <<"primary", "fallback">>}
    /\ Len(fetchCalls) = 2 => PrimaryEmptyOrNotFound

\* an order-detail run whose primary fetch was answered with HTTP 500 has
\* issued its second fetch
C26_Witness ==
    /\ entity = "order_dtl"
    /\ win.primary.kind = "500"
    /\ fetchCalls = <<"primary", "fallback">>

\* C27: a page response is accepted in each of the shapes {results: [...]},
\* {result: [...]} and bare array: for the same record list fetch_all_sync
\* returns the same records whichever shape is used, and no shape makes the
\* call fail.
C27_AllShapesAccepted ==
    api.faultPage = 0 =>
        /\ ppc # "raised"
        /\ ppc = "returned" => items = ConcatPages(api, StopPage(api))

\* a first page of one record was served as a bare array
C27_Witness ==
    /\ api.shape = "bare"
    /\ api.faultPage = 0
    /\ api.sizes = <<1>>
    /\ reqlog = <<1>>
    /\ ppc \in {"returned", "raised"}

\* C28: in inventory and shipment-unit extraction, for any list of fetched
\* summaries (summaries without an id included), the merged list has exactly
\* one record per summary, and the detail merged at position i is the detail
\* fetched for the id of summary i, never the detail of another record.
MergedFor(summary) ==
    IF "id" \in DOMAIN summary
    THEN MergeOne(summary, OutcomeOf(summary["id"]))
    ELSE summary

C28_MergeAlignsDetailWithSummary ==
    (entity \in DetailEntities /\ rpc \in {"flatten", "upsert"}) =>
        /\ Len(merged) = Len(ritems)
        /\ \A k \in 1..Len(merged) : merged[k] = MergedFor(ritems[k])

\* a run whose first summary carries no id and whose second one does, with
\* the detail of the second fetched, has merged
C28_Witness ==
    /\ entity \in DetailEntities
    /\ rpc = "flatten"
    /\ Len(ritems) = 2
    /\ "id" \notin DOMAIN ritems[1]
    /\ "id" \in DOMAIN ritems[2]
    /\ IsDict(OutcomeOf(ritems[2]["id"])) /\ Truthy(OutcomeOf(ritems[2]["id"]))

\* C29: an entity run that ends with zero records leaves the Sink untouched:
\* no upsert_* call is made, so no statement is executed and nothing is
\* committed or left in the open transaction.
C29_ZeroRecordRunLeavesSinkUntouched ==
    (rpc = "returned" /\ retval = 0) =>
        /\ chunkIdx = 0
        /\ sinkLog = <<>>
        /\ txn = <<>>

\* a container run found both windows empty and returned 0
C29_Witness ==
    /\ rpc = "returned"
    /\ retval = 0
    /\ entity = "container"
    /\ fetchCalls = <<"primary", "fallback">>
    /\ win.fallback = [kind |-> "ok", n |-> 0]
    /\ sinkLog = <<>>

(***************************************************************************)
(* The backlog view: run_backlog.fetch_backlog walks the days from start   *)
(* to end.  A datetime is a day number and a time of day (0 is midnight);  *)
(* fetch_all_sync, the flattener and the export are modelled by what the   *)
(* day yields.                                                             *)
(***************************************************************************)
MaxDay == 3
TimesOfDay == {0, 1}
Datetimes == [d : 0..MaxDay, t : TimesOfDay]

\* a < b on datetimes
Before(a, b) == a.d < b.d \/ (a.d = b.d /\ a.t < b.t)

\* current + timedelta(days=k)
PlusDays(a, k) == [d |-> a.d + k, t |-> a.t]

\* strftime("%Y-%m-%dT00:00:00"): the midnight that starts the datetime's day
Midnight(a) == a.d

\* params: create_ts__gte, create_ts__lt
WindowOf(cur) == [gte |-> Midnight(cur), lt |-> Midnight(PlusDays(cur, 1))]

\* what a day yields: records (fetched, flattened and exported), an empty
\* list, a 404, another fetch error, or a flattener that raises
DayOutcomes == {"records", "empty", "404", "error", "flatten_error"}
RecordsPerDay == 2

\* except Exception: the error is logged and the loop goes on
OnDayError_break == "break"
OnDayError == "continue"

InitBacklog ==
    /\ bkpc = "loop"
    /\ bstart \in Datetimes
    /\ bend \in {e \in Datetimes : ~Before(e, bstart)}
    /\ current = bstart
    /\ blog = <<>>
    /\ exported = <<>>
    /\ total_records = 0
    /\ FlatIdle
    /\ PageIdle
    /\ RunIdle
    /\ LoadIdle
    /\ SinkIdle
    /\ MainIdle
    /\ MonthIdle

\* one iteration of "while current < end"
BacklogDay ==
    /\ bkpc = "loop"
    /\ Before(current, bend)
    /\ \E o \in DayOutcomes :
          /\ blog' = Append(blog, [window |-> WindowOf(current), outcome |-> o])
          /\ IF o = "records"
             THEN /\ exported' = Append(exported, Midnight(current))
                  /\ total_records' = total_records + RecordsPerDay
             ELSE UNCHANGED <<exported, total_records>>
          /\ IF o \in {"404", "error", "flatten_error"} /\ OnDayError = "break"
             THEN bkpc' = "done" /\ UNCHANGED current
             ELSE bkpc' = "loop" /\ current' = PlusDays(current, 1)
    /\ UNCHANGED <<bstart, bend>>
    /\ UNCHANGED notBacklogVars

\* the loop condition is false: the total is logged and fetch_backlog returns
BacklogReturn ==
    /\ bkpc = "loop"
    /\ ~Before(current, bend)
    /\ bkpc' = "done"
    /\ UNCHANGED <<bstart, bend, current, blog, exported, total_records>>
    /\ UNCHANGED notBacklogVars

NextBacklog == BacklogDay \/ BacklogReturn

SpecBacklog == InitBacklog /\ [][NextBacklog]_vars

\* the loop body is straight-line code between two bounded calls: an
\* iteration that can run does run
SpecBacklogFair == SpecBacklog /\ WF_vars(NextBacklog)

\* the number of steps k >= 0 with start + k days < end
NumWindows(a, b) == Cardinality({k \in 0..(MaxDay + 1) : Before(PlusDays(a, k), b)})

BacklogWindowsInOrder ==
    /\ Len(blog) <= NumWindows(bstart, bend)
    /\ \A k \in 1..Len(blog) : blog[k].window = WindowOf(PlusDays(bstart, k - 1))
    /\ bkpc = "done" => Len(blog) = NumWindows(bstart, bend)

ExportedDays ==
    LET F[k \in 0..Len(blog)] ==
            IF k = 0 THEN <<>>
            ELSE IF blog[k].outcome = "records" THEN Append(F[k - 1], blog[k].window.gte)
            ELSE F[k - 1]
    IN  F[Len(blog)]

BacklogSkipsWithoutExport ==
    /\ exported = ExportedDays
    /\ total_records = RecordsPerDay * Len(exported)

\* C30: fetch_backlog terminates for every start <= end and requests each
\* one-day window from start up to end exactly once, in increasing date
\* order; a day that yields no records or whose fetch raises is skipped
\* without export and the following days are still processed.
C30_BacklogWalksEveryDay ==
    /\ [](BacklogWindowsInOrder /\ BacklogSkipsWithoutExport)
    /\ <>(bkpc = "done")

\* three days were requested; the first raised, the second was empty, the
\* third was exported, and fetch_backlog returned
C30_Witness ==
    /\ bkpc = "done"
    /\ Len(blog) = 3
    /\ blog[1].outcome = "error"
    /\ blog[2].outcome = "empty"
    /\ blog[3].outcome = "records"
    /\ exported = <<blog[3].window.gte>>
    /\ bstart.t = 0

====
